---- MODULE Spec2Model ----
(***************************************************************************)
(* hexcfg: the priority-based aggregation and caching engine               *)
(* (DefaultConfigService, src/src/service/default_service.rs) over the     *)
(* ConfigSource port (src/src/ports/source.rs).                            *)
(***************************************************************************)
EXTENDS Integers, Sequences, FiniteSets, TLC

VARIABLES
    sources,   \* DefaultConfigService.sources: Vec<Box<dyn ConfigSource>>
    cache,     \* DefaultConfigService.cache: HashMap<String, ConfigValue>
    watchers,  \* DefaultConfigService.watchers: number of stored watchers
    pc,        \* "idle", or "reloading" while reload() walks the sources
    last,      \* observation of the service call in progress or last returned
    kind,          \* the watcher at hand: "file", "etcd", "redis" ("none": no watcher)
    watcher,       \* FileWatcher.watcher (and event_rx, set and cleared with it): is_some
    stop_tx,       \* stop_tx: the worker whose stop channel the Sender feeds, 0 for None
    watch_thread,  \* watch_thread: the worker the JoinHandle is of, 0 for None
    workers,       \* the worker threads spawned so far, in the order of their spawn
    caller,        \* the thread that owns the watcher: "idle", or "joining" inside stop
    wlast,         \* observation of the watcher call in progress or last returned
    now,           \* Instant::now(): the monotonic clock the FileWatcher worker reads
    calls,         \* the invocations of the callbacks so far, in the order they began
    mutex,         \* Arc<Mutex<DefaultConfigService>>: the thread that holds the lock
    closure,       \* where the reload callback of the documented wiring is
    environ,       \* the process environment: std::env::vars()
    env_cache,     \* EnvVarAdapter.cache: RwLock<Option<HashMap<String, String>>>
    env_threads,   \* the threads inside EnvVarAdapter::get_cache, and the map each loaded
    served,        \* the maps get_cache has returned since the adapter was made or reloaded
    cache_lock,    \* the RwLock around the cache: the threads that hold a read guard,
                   \* and the holder of the write guard
    getters        \* the threads inside DefaultConfigService::get under SpecLock

service_vars == <<sources, cache, watchers, pc, last>>
watcher_vars == <<kind, watcher, stop_tx, watch_thread, workers, caller, wlast>>
event_vars == <<now, calls>>
wiring_vars == <<mutex, closure>>
env_vars == <<environ, env_cache, env_threads, served>>
lock_vars == <<cache_lock, getters>>
vars == <<sources, cache, watchers, pc, last,
          kind, watcher, stop_tx, watch_thread, workers, caller, wlast,
          now, calls, mutex, closure,
          environ, env_cache, env_threads, served,
          cache_lock, getters>>

\* what a call of the service leaves alone, and what a call of the watcher
\* leaves alone
outside_service == <<watcher_vars, event_vars, wiring_vars, env_vars, lock_vars>>
outside_watcher == <<service_vars, event_vars, wiring_vars, env_vars, lock_vars>>
outside_events == <<service_vars, wiring_vars, env_vars, lock_vars>>

----------------------------------------------------------------------------
(* Bounds of the model *)

MaxSources == 2    \* sources of the service under Spec
MaxRegistry == 3   \* sources of the service under SpecRegistry
MaxPriority == 2
MaxWatchers == 1
MaxCacheSources == 1   \* sources of the service under SpecCache

Keys == {"a"}
Values == {"v1", "v2"}
Defaults == {"d", "v1"}
CacheKeys == {"a", "b"}   \* the keys under SpecCache

MaxWorkers == 2     \* worker threads spawned under SpecWatcher
MaxCallbacks == 2   \* callbacks handed to watch under SpecWatcher
MaxEnvThreads == 2  \* threads that read the EnvVarAdapter under SpecEnv
MaxGetters == 2     \* threads that call get on the service under SpecLock
MaxLockSources == 1 \* sources of the service under SpecLock
MaxEvents == 2      \* events delivered to the workers under SpecEvents
MaxTime == 3        \* readings of the clock under SpecEvents
DebounceDelay == 2  \* FileWatcher.debounce_delay, in ticks of the clock
WatcherKinds == {"file", "etcd", "redis"}
Callbacks == 1..MaxCallbacks

Priorities == 1..MaxPriority

\* every HashMap<String, String> over the keys K
Maps(K) == UNION {[D -> Values] : D \in SUBSET K}

EmptyMap == [x \in {} |-> ""]

----------------------------------------------------------------------------
(* Results: Result<Option<ConfigValue>>, Result<ConfigValue>, bool, () *)

NoRet == [tag |-> "NoRet", v |-> ""]
SomeVal(v) == [tag |-> "Some", v |-> v]
NoneVal == [tag |-> "None", v |-> ""]
SourceErr(name) == [tag |-> "SourceError", v |-> name]
OkVal(v) == [tag |-> "Ok", v |-> v]
ConfigKeyNotFound(k) == [tag |-> "ConfigKeyNotFound", v |-> k]
OkUnit == [tag |-> "OkUnit", v |-> ""]
BoolRet(b) == [tag |-> IF b THEN "true" ELSE "false", v |-> ""]

IsErr(r) == r.tag \in {"ConfigKeyNotFound", "SourceError"}

SourceName(id) == ToString(id)

----------------------------------------------------------------------------
(* The ConfigSource port *)

\* a source as handed to add_source: id is its registration number
NewSource(id, p, vals) == [id |-> id, priority |-> p, values |-> vals]

\* ConfigSource::get: a value, not-found, or this source's own error
\* (errs: the sources whose get fails at this call)
source_get(s, k, errs) ==
    IF s.id \in errs THEN SourceErr(SourceName(s.id))
    ELSE IF k \in DOMAIN s.values THEN SomeVal(s.values[k])
    ELSE NoneVal

\* ConfigSource::reload: a failed reload keeps the loaded values, a
\* successful one replaces them by what the medium holds now
source_reload(s, ok, vals) ==
    IF ok THEN [s EXCEPT !.values = vals] ELSE s

----------------------------------------------------------------------------
(* DefaultConfigService helpers *)

\* the sort key of sort_sources, std::cmp::Reverse(b.priority())
sort_key_asc(s) == s.priority
sort_key(s) == 0 - s.priority

\* one step of the stable sort: x goes behind every element whose key is
\* not greater than its own (sorted is ordered by sort_key)
stable_insert_before_equal(sorted, x) ==
    LET n == Cardinality({i \in 1..Len(sorted) : sort_key(sorted[i]) < sort_key(x)})
    IN SubSeq(sorted, 1, n) \o <<x>> \o SubSeq(sorted, n + 1, Len(sorted))
stable_insert(sorted, x) ==
    LET n == Cardinality({i \in 1..Len(sorted) : sort_key(sorted[i]) <= sort_key(x)})
    IN SubSeq(sorted, 1, n) \o <<x>> \o SubSeq(sorted, n + 1, Len(sorted))

\* Vec::sort_by_key, a stable sort
RECURSIVE sort_by_key(_)
sort_by_key(v) ==
    IF v = <<>> THEN <<>>
    ELSE stable_insert(sort_by_key(SubSeq(v, 1, Len(v) - 1)), v[Len(v)])

\* sort_sources: self.sources.sort_by_key(..)
sort_sources_unsorted(v) == v
sort_sources(v) == sort_by_key(v)

\* invalidate_cache: cache.clear()
invalidate_cache_keep(c) == c
invalidate_cache(c) == EmptyMap

\* cache.insert(key, value)
cache_insert_evicting(c, k, v) == (k :> v)
cache_insert_skip(c, k, v) == c
cache_insert(c, k, v) == (k :> v) @@ c

\* the Err arm of query_sources: log, then continue with the next source
source_error_propagate(id, e, rest) ==
    [res |-> e, queried |-> <<id>>, failed |-> {id}]
source_error_continue(id, e, rest) ==
    [res |-> rest.res, queried |-> <<id>> \o rest.queried,
     failed |-> {id} \cup rest.failed]

\* query_sources: the first Ok(Some) in registry order, Ok(None) if none
RECURSIVE query_from(_, _, _, _)
query_from(srcs, k, errs, i) ==
    IF i > Len(srcs)
    THEN [res |-> NoneVal, queried |-> <<>>, failed |-> {}]
    ELSE LET s == srcs[i]
             r == source_get(s, k, errs)
         IN CASE r.tag = "Some" ->
                   [res |-> r, queried |-> <<s.id>>, failed |-> {}]
              [] r.tag = "None" ->
                   LET rest == query_from(srcs, k, errs, i + 1)
                   IN [rest EXCEPT !.queried = <<s.id>> \o @]
              [] OTHER ->
                   source_error_continue(s.id, r, query_from(srcs, k, errs, i + 1))

query_sources(srcs, k, errs) == query_from(srcs, k, errs, 1)

\* the cache after get found no value: the `?` returns before the insert
cache_after_not_found_negative(c, k) == cache_insert(c, k, "")
cache_after_not_found(c, k) == c

\* Option::ok_or_else(|| ConfigError::ConfigKeyNotFound { key })
ok_or_else_empty(opt, k) ==
    IF opt.tag = "Some" THEN OkVal(opt.v) ELSE OkVal("")
ok_or_else(opt, k) ==
    IF opt.tag = "Some" THEN OkVal(opt.v) ELSE ConfigKeyNotFound(k)

\* ConfigurationService::get as a function of the state it runs in:
\* what it returns, the cache it leaves, and the source calls it made
get_call_caching_clean_results(srcs, c, k, errs) ==
    IF k \in DOMAIN c
    THEN [ret |-> OkVal(c[k]), cache |-> c, queried |-> <<>>,
          failed |-> {}, hit |-> TRUE]
    ELSE LET q == query_sources(srcs, k, errs)
             r == IF q.res.tag = "SourceError" THEN q.res ELSE ok_or_else(q.res, k)
         IN [ret |-> r,
             cache |-> IF r.tag = "Ok" /\ q.failed = {} THEN cache_insert(c, k, r.v) ELSE c,
             queried |-> q.queried, failed |-> q.failed, hit |-> FALSE]
get_call(srcs, c, k, errs) ==
    IF k \in DOMAIN c
    THEN [ret |-> OkVal(c[k]), cache |-> c, queried |-> <<>>,
          failed |-> {}, hit |-> TRUE]
    ELSE LET q == query_sources(srcs, k, errs)
             r == IF q.res.tag = "SourceError" THEN q.res ELSE ok_or_else(q.res, k)
         IN [ret |-> r,
             cache |-> CASE r.tag = "Ok" -> cache_insert(c, k, r.v)
                         [] r.tag = "ConfigKeyNotFound" -> cache_after_not_found(c, k)
                         [] OTHER -> c,
             queried |-> q.queried, failed |-> q.failed, hit |-> FALSE]

\* the self.get(key) call made by has
has_call_uncached(srcs, c, k, errs) ==
    [get_call(srcs, c, k, errs) EXCEPT !.cache = c]
has_call(srcs, c, k, errs) == get_call(srcs, c, k, errs)

\* Result::unwrap_or_else(|_| ConfigValue::from(default))
unwrap_or_else_always_default(r, d) == OkVal(d)
unwrap_or_else(r, d) == IF IsErr(r) THEN OkVal(d) ELSE r

\* Result::is_ok
is_ok(r) == ~IsErr(r)

Observe(op, k, arg, ret, queried, failed, hit, reloaded) ==
    [op |-> op, key |-> k, arg |-> arg, ret |-> ret, queried |-> queried,
     failed |-> failed, hit |-> hit, reloaded |-> reloaded]

----------------------------------------------------------------------------
(* DefaultConfigService::new *)

\* what is seen of a call of watch or stop: its result, the worker it
\* spawned or joined (0: none), and whether a watch has returned Ok with no
\* stop called since
ObserveWatcher(op, ret, thread, watching) ==
    [op |-> op, ret |-> ret, thread |-> thread, watching |-> watching]

\* the owner of the watcher: outside a call, or inside stop in the join of
\* the worker handle
Caller(at, handle) == [pc |-> at, handle |-> handle]

\* FileWatcher::new, EtcdWatcher::new, RedisWatcher::new: no notify
\* watcher, no channel, no thread
watcher_new ==
    /\ watcher = FALSE
    /\ stop_tx = 0
    /\ watch_thread = 0
    /\ workers = <<>>
    /\ caller = Caller("idle", 0)
    /\ wlast = ObserveWatcher("new", NoRet, 0, FALSE)
    /\ now = 0
    /\ calls = <<>>
    /\ mutex = "none"
    /\ closure = "idle"
    /\ environ = EmptyMap
    /\ env_cache = NoneVal
    /\ env_threads = <<>>
    /\ served = {}
    /\ cache_lock = [readers |-> {}, writer |-> 0]
    /\ getters = <<>>

Init ==
    /\ sources = <<>>
    /\ cache = EmptyMap
    /\ watchers = 0
    /\ pc = "idle"
    /\ last = Observe("new", "", "", NoRet, <<>>, {}, FALSE, <<>>)
    /\ kind = "none"
    /\ watcher_new

----------------------------------------------------------------------------
(* Operations of the service *)

\* add_source (also each iteration of ConfigurationServiceBuilder::build)
add_source_keep_cache(p, vals, max) ==
    /\ pc = "idle"
    /\ Len(sources) < max
    /\ sources' = sort_sources(Append(sources, NewSource(Len(sources) + 1, p, vals)))
    /\ last' = Observe("add_source", "", "", OkUnit, <<>>, {}, FALSE, <<>>)
    /\ UNCHANGED <<cache, watchers, pc>>
    /\ UNCHANGED outside_service
add_source(p, vals, max) ==
    /\ pc = "idle"
    /\ Len(sources) < max
    /\ sources' = sort_sources(Append(sources, NewSource(Len(sources) + 1, p, vals)))
    /\ cache' = invalidate_cache(cache)
    /\ last' = Observe("add_source", "", "", OkUnit, <<>>, {}, FALSE, <<>>)
    /\ UNCHANGED <<watchers, pc>>
    /\ UNCHANGED outside_service

get(k, errs) ==
    /\ pc = "idle"
    /\ LET g == get_call(sources, cache, k, errs)
       IN /\ cache' = g.cache
          /\ last' = Observe("get", k, "", g.ret, g.queried, g.failed, g.hit, <<>>)
    /\ UNCHANGED <<sources, watchers, pc>>
    /\ UNCHANGED outside_service

get_or_default_caching(k, d, errs) ==
    /\ pc = "idle"
    /\ LET g == get_call(sources, cache, k, errs)
           r == unwrap_or_else(g.ret, d)
       IN /\ cache' = cache_insert(g.cache, k, r.v)
          /\ last' = Observe("get_or_default", k, d, r,
                             g.queried, g.failed, g.hit, <<>>)
    /\ UNCHANGED <<sources, watchers, pc>>
    /\ UNCHANGED outside_service
get_or_default(k, d, errs) ==
    /\ pc = "idle"
    /\ LET g == get_call(sources, cache, k, errs)
       IN /\ cache' = g.cache
          /\ last' = Observe("get_or_default", k, d, unwrap_or_else(g.ret, d),
                             g.queried, g.failed, g.hit, <<>>)
    /\ UNCHANGED <<sources, watchers, pc>>
    /\ UNCHANGED outside_service

has(k, errs) ==
    /\ pc = "idle"
    /\ LET g == has_call(sources, cache, k, errs)
       IN /\ cache' = g.cache
          /\ last' = Observe("has", k, "", BoolRet(is_ok(g.ret)),
                             g.queried, g.failed, g.hit, <<>>)
    /\ UNCHANGED <<sources, watchers, pc>>
    /\ UNCHANGED outside_service

\* reload: the loop over the sources, one source.reload() per step
reload_begin_invalidating ==
    /\ pc = "idle"
    /\ pc' = "reloading"
    /\ cache' = invalidate_cache(cache)
    /\ last' = Observe("reload", "", "", NoRet, <<>>, {}, FALSE, <<>>)
    /\ UNCHANGED <<sources, watchers>>
    /\ UNCHANGED outside_service
reload_begin ==
    /\ pc = "idle"
    /\ pc' = "reloading"
    /\ last' = Observe("reload", "", "", NoRet, <<>>, {}, FALSE, <<>>)
    /\ UNCHANGED <<sources, cache, watchers>>
    /\ UNCHANGED outside_service

\* the loop of reload is over when every source has been visited: a failed
\* source.reload() is logged and the loop goes on
reload_done_at_first_error(log, n) ==
    Len(log) = n \/ (log # <<>> /\ ~log[Len(log)].ok)
reload_done(log, n) == Len(log) = n

reload_source(ok, vals) ==
    /\ pc = "reloading"
    /\ ~reload_done(last.reloaded, Len(sources))
    /\ LET i == Len(last.reloaded) + 1
       IN /\ sources' = [sources EXCEPT ![i] = source_reload(@, ok, vals)]
          /\ last' = [last EXCEPT !.reloaded = Append(@, [id |-> sources[i].id, ok |-> ok])]
    /\ UNCHANGED <<cache, watchers, pc>>
    /\ UNCHANGED outside_service

\* invalidate the cache after reloading, return Ok(())
reload_end_dropping_failed ==
    /\ pc = "reloading"
    /\ reload_done(last.reloaded, Len(sources))
    /\ sources' = SelectSeq(sources, LAMBDA s :
                      \E n \in 1..Len(last.reloaded) :
                          last.reloaded[n].id = s.id /\ last.reloaded[n].ok)
    /\ cache' = invalidate_cache(cache)
    /\ pc' = "idle"
    /\ last' = [last EXCEPT !.ret = OkUnit]
    /\ UNCHANGED watchers
    /\ UNCHANGED outside_service
reload_end ==
    /\ pc = "reloading"
    /\ reload_done(last.reloaded, Len(sources))
    /\ cache' = invalidate_cache(cache)
    /\ pc' = "idle"
    /\ last' = [last EXCEPT !.ret = OkUnit]
    /\ UNCHANGED <<sources, watchers>>
    /\ UNCHANGED outside_service

\* register_watcher(watcher): self.watchers.push(watcher); Ok(())
register_watcher_starting ==
    /\ pc = "idle"
    /\ watchers < MaxWatchers
    /\ Len(workers) < MaxWorkers
    /\ watchers' = watchers + 1
    /\ last' = Observe("register_watcher", "", "", OkUnit, <<>>, {}, FALSE, <<>>)
    /\ watcher' = (kind = "file")
    /\ stop_tx' = Len(workers) + 1
    /\ watch_thread' = Len(workers) + 1
    /\ workers' = Append(workers, [state |-> "check", callback |-> 1, signals |-> 0,
                                   event_rx |-> <<>>, arrived |-> 0,
                                   last_event_time |-> NoneVal, event |-> NoneVal,
                                   rest |-> <<>>])
    /\ UNCHANGED <<sources, cache, pc>>
    /\ UNCHANGED <<kind, caller, wlast, event_vars, wiring_vars, env_vars, lock_vars>>
register_watcher ==
    /\ pc = "idle"
    /\ watchers < MaxWatchers
    /\ watchers' = watchers + 1
    /\ last' = Observe("register_watcher", "", "", OkUnit, <<>>, {}, FALSE, <<>>)
    /\ UNCHANGED <<sources, cache, pc>>
    /\ UNCHANGED outside_service

----------------------------------------------------------------------------
(* The environment: the data behind a registered source changes *)

source_change(i, k, holds, v) ==
    /\ i \in 1..Len(sources)
    /\ LET vals == sources[i].values
           new == IF holds THEN (k :> v) @@ vals
                  ELSE [x \in DOMAIN vals \ {k} |-> vals[x]]
       IN /\ new # vals
          /\ sources' = [sources EXCEPT ![i].values = new]
    /\ UNCHANGED <<cache, watchers, pc, last>>
    /\ UNCHANGED outside_service

----------------------------------------------------------------------------

\* the registration numbers of the registered sources
SourceIds == 1..Len(sources)

\* the sets of sources whose get can fail during one call for k: any set of
\* registered sources (no source is called when k is cached)
Failures(k) == IF k \in DOMAIN cache THEN {{}} ELSE SUBSET SourceIds

Next ==
    \/ \E p \in Priorities, vals \in Maps(Keys) : add_source(p, vals, MaxSources)
    \/ \E k \in Keys : \E errs \in Failures(k) : get(k, errs)
    \/ \E k \in Keys, d \in Defaults : \E errs \in Failures(k) : get_or_default(k, d, errs)
    \/ \E k \in Keys : \E errs \in Failures(k) : has(k, errs)
    \/ reload_begin
    \/ \E vals \in Maps(Keys) : reload_source(TRUE, vals)
    \/ reload_source(FALSE, EmptyMap)
    \/ reload_end
    \/ register_watcher
    \/ \E i \in SourceIds, k \in Keys, v \in Values : source_change(i, k, TRUE, v)
    \/ \E i \in SourceIds, k \in Keys : source_change(i, k, FALSE, "")

Spec == Init /\ [][Next]_vars

\* the registry alone: sources are added and queried, their data changes
NextRegistry ==
    \/ \E p \in Priorities, vals \in Maps(Keys) : add_source(p, vals, MaxRegistry)
    \/ \E k \in Keys : \E errs \in Failures(k) : get(k, errs)
    \/ \E i \in SourceIds, k \in Keys, v \in Values : source_change(i, k, TRUE, v)
    \/ \E i \in SourceIds, k \in Keys : source_change(i, k, FALSE, "")

SpecRegistry == Init /\ [][NextRegistry]_vars

\* the service over two keys: what a call for one key does to the cache
\* entry of the other
NextCache ==
    \/ \E p \in Priorities, vals \in Maps(CacheKeys) : add_source(p, vals, MaxCacheSources)
    \/ \E k \in CacheKeys : \E errs \in Failures(k) : get(k, errs)
    \/ \E k \in CacheKeys, d \in Defaults : \E errs \in Failures(k) : get_or_default(k, d, errs)
    \/ \E k \in CacheKeys : \E errs \in Failures(k) : has(k, errs)
    \/ reload_begin
    \/ \E vals \in Maps(CacheKeys) : reload_source(TRUE, vals)
    \/ reload_source(FALSE, EmptyMap)
    \/ reload_end
    \/ register_watcher

SpecCache == Init /\ [][NextCache]_vars

----------------------------------------------------------------------------
(* The source adapters: reload of YamlFileAdapter, EtcdAdapter and         *)
(* RedisAdapter. Each keeps the loaded key/value map in memory (values,    *)
(* cache) and reload reads the medium again.                               *)

MAX_YAML_FILE_SIZE == 10 * 1024 * 1024

ParseError == [tag |-> "ParseError", v |-> ""]

\* the outcome of an adapter's reload: what it returns, the step that
\* failed, and the adapter's map afterwards
AdapterResult(ret, stage, values) == [ret |-> ret, stage |-> stage, values |-> values]

\* what YamlFileAdapter::reload finds of its file
YamlFiles ==
    [metadata_ok : BOOLEAN, len : {MAX_YAML_FILE_SIZE, MAX_YAML_FILE_SIZE + 1},
     read_ok : BOOLEAN, parse_ok : BOOLEAN, content : Maps(Keys)]

\* YamlFileAdapter::reload: fs::metadata, the size limit, read_to_string
\* and parse each return early on failure; self.values is assigned last
YamlFileAdapter_reload_clearing(values, f) ==
    IF ~f.metadata_ok THEN AdapterResult(SourceErr("yaml-file"), "metadata", values)
    ELSE IF f.len > MAX_YAML_FILE_SIZE
         THEN AdapterResult(SourceErr("yaml-file"), "size", values)
    ELSE IF ~f.read_ok THEN AdapterResult(SourceErr("yaml-file"), "read", EmptyMap)
    ELSE IF ~f.parse_ok THEN AdapterResult(ParseError, "parse", EmptyMap)
    ELSE AdapterResult(OkUnit, "", f.content)
YamlFileAdapter_reload(values, f) ==
    IF ~f.metadata_ok THEN AdapterResult(SourceErr("yaml-file"), "metadata", values)
    ELSE IF f.len > MAX_YAML_FILE_SIZE
         THEN AdapterResult(SourceErr("yaml-file"), "size", values)
    ELSE IF ~f.read_ok THEN AdapterResult(SourceErr("yaml-file"), "read", values)
    ELSE IF ~f.parse_ok THEN AdapterResult(ParseError, "parse", values)
    ELSE AdapterResult(OkUnit, "", f.content)

\* what EtcdAdapter::reload_sync finds: whether it runs inside a tokio
\* runtime (the fetch then runs on a thread that is joined), and the
\* outcome of join, Client::connect and client.get
EtcdStores ==
    [in_runtime : BOOLEAN, join_ok : BOOLEAN, connect_ok : BOOLEAN,
     fetch_ok : BOOLEAN, kvs : Maps(Keys)]

\* EtcdAdapter::reload_sync: new_cache is built aside and self.cache is
\* assigned after the last `?`
EtcdAdapter_reload_sync(cache_, m) ==
    IF m.in_runtime /\ ~m.join_ok THEN AdapterResult(SourceErr("etcd"), "join", cache_)
    ELSE IF ~m.connect_ok THEN AdapterResult(SourceErr("etcd"), "connect", cache_)
    ELSE IF ~m.fetch_ok THEN AdapterResult(SourceErr("etcd"), "fetch", cache_)
    ELSE AdapterResult(OkUnit, "", m.kvs)

\* what RedisAdapter::reload_sync finds: as for etcd, with the storage mode
\* (one HGETALL, or SCAN and then a GET for each key found)
RedisStores ==
    [in_runtime : BOOLEAN, join_ok : BOOLEAN, connect_ok : BOOLEAN,
     storage_mode : {"Hash", "StringKeys"}, hgetall_ok : BOOLEAN,
     scan_ok : BOOLEAN, get_ok : BOOLEAN, data : Maps(Keys)]

\* RedisAdapter::reload_sync
RedisAdapter_reload_sync(cache_, m) ==
    IF m.in_runtime /\ ~m.join_ok THEN AdapterResult(SourceErr("redis"), "join", cache_)
    ELSE IF ~m.connect_ok THEN AdapterResult(SourceErr("redis"), "connect", cache_)
    ELSE IF m.storage_mode = "Hash" /\ ~m.hgetall_ok
         THEN AdapterResult(SourceErr("redis"), "fetch", cache_)
    ELSE IF m.storage_mode = "StringKeys" /\ ~m.scan_ok
         THEN AdapterResult(SourceErr("redis"), "fetch", cache_)
    ELSE IF m.storage_mode = "StringKeys" /\ m.data # EmptyMap /\ ~m.get_ok
         THEN AdapterResult(SourceErr("redis"), "fetch", cache_)
    ELSE AdapterResult(OkUnit, "", m.data)

\* one call of reload on the adapter at position i of the registry (under
\* SpecAdapters: 1 the YAML file, 2 etcd, 3 Redis)
adapter_reload(i, op, r) ==
    /\ pc = "idle"
    /\ sources' = [sources EXCEPT ![i].values = r.values]
    /\ last' = Observe(op, "", r.stage, r.ret, <<>>, {}, FALSE, <<>>)
    /\ UNCHANGED <<cache, watchers, pc>>
    /\ UNCHANGED outside_service

reload_yaml(f) ==
    adapter_reload(1, "YamlFileAdapter::reload",
                   YamlFileAdapter_reload(sources[1].values, f))

reload_etcd(m) ==
    adapter_reload(2, "EtcdAdapter::reload",
                   EtcdAdapter_reload_sync(sources[2].values, m))

reload_redis(m) ==
    adapter_reload(3, "RedisAdapter::reload",
                   RedisAdapter_reload_sync(sources[3].values, m))

\* the three adapters as constructed, each with the map it loaded
InitAdapters ==
    /\ \E y, e, r \in Maps(Keys) :
          sources = <<NewSource(1, 1, y), NewSource(2, 1, e),
                      NewSource(3, 1, r)>>
    /\ cache = EmptyMap
    /\ watchers = 0
    /\ pc = "idle"
    /\ last = Observe("new", "", "", NoRet, <<>>, {}, FALSE, <<>>)
    /\ kind = "none"
    /\ watcher_new

NextAdapters ==
    \/ \E f \in YamlFiles : reload_yaml(f)
    \/ \E m \in EtcdStores : reload_etcd(m)
    \/ \E m \in RedisStores : reload_redis(m)

SpecAdapters == InitAdapters /\ [][NextAdapters]_vars

----------------------------------------------------------------------------
(* The ConfigWatcher port: FileWatcher, EtcdWatcher, RedisWatcher. watch   *)
(* spawns a worker thread that polls for changes and calls the callback;   *)
(* stop signals the worker over the stop channel and joins it.             *)

WatcherError(msg) == [tag |-> "WatcherError", v |-> msg]

\* a worker thread as spawned: where it is in its loop, the callback moved
\* into its closure, the signals waiting in its stop channel, the events
\* waiting in its event channel (notify channel, etcd watch stream, Redis
\* pub/sub connection) and how many were delivered to it, the local
\* last_event_time, the event the FileWatcher worker received last, and the
\* events of the etcd response in hand that are still to be reported
Worker(at, cb) ==
    [state |-> at, callback |-> cb, signals |-> 0,
     event_rx |-> <<>>, arrived |-> 0,
     last_event_time |-> NoneVal, event |-> NoneVal, rest |-> <<>>]

\* the thread has not returned and not panicked (it still owns stop_rx)
Live(w) == w.state \notin {"done", "panicked"}

\* the guard of watch: self.watcher.is_some() for FileWatcher,
\* self.watch_thread.is_some() for EtcdWatcher and RedisWatcher
already_running_never(k, w, t) == FALSE
already_running(k, w, t) == IF k = "file" THEN w ELSE t # 0

\* the errors of FileWatcher::watch before anything is stored in self:
\* RecommendedWatcher::new fails, the file has no parent directory,
\* watcher.watch(path) fails
StartFailures ==
    {"Failed to create file watcher", "Failed to get parent directory",
     "Failed to start watching"}

watch_half_started(cb, started) ==
    /\ kind # "none"
    /\ caller.pc = "idle"
    /\ IF already_running(kind, watcher, watch_thread)
       THEN /\ wlast' = ObserveWatcher("watch", WatcherError("Watcher is already running"),
                                       0, wlast.watching)
            /\ UNCHANGED <<watcher, stop_tx, watch_thread, workers>>
       ELSE IF kind = "file" /\ ~started
       THEN /\ \E message \in StartFailures :
                  wlast' = ObserveWatcher("watch", WatcherError(message), 0, wlast.watching)
            /\ watcher' = TRUE
            /\ UNCHANGED <<stop_tx, watch_thread, workers>>
       ELSE /\ Len(workers) < MaxWorkers
            /\ watcher' = (kind = "file")
            /\ stop_tx' = Len(workers) + 1
            /\ workers' = Append(workers, Worker(IF kind = "etcd" THEN "start" ELSE "check", cb))
            /\ watch_thread' = Len(workers) + 1
            /\ wlast' = ObserveWatcher("watch", OkUnit, Len(workers) + 1, TRUE)
    /\ UNCHANGED <<kind, caller>>
    /\ UNCHANGED outside_watcher

watch_keeping_history(cb, started) ==
    /\ kind # "none"
    /\ caller.pc = "idle"
    /\ IF already_running(kind, watcher, watch_thread)
       THEN /\ wlast' = ObserveWatcher("watch", WatcherError("Watcher is already running"),
                                       0, wlast.watching)
            /\ UNCHANGED <<watcher, stop_tx, watch_thread, workers>>
       ELSE IF kind = "file" /\ ~started
       THEN /\ \E message \in StartFailures :
                  wlast' = ObserveWatcher("watch", WatcherError(message), 0, wlast.watching)
            /\ UNCHANGED <<watcher, stop_tx, watch_thread, workers>>
       ELSE /\ Len(workers) < MaxWorkers
            /\ watcher' = (kind = "file")
            /\ stop_tx' = Len(workers) + 1
            /\ workers' = Append(workers,
                   IF workers = <<>>
                   THEN Worker(IF kind = "etcd" THEN "start" ELSE "check", cb)
                   ELSE [Worker(IF kind = "etcd" THEN "start" ELSE "check", cb)
                            EXCEPT !.last_event_time = workers[Len(workers)].last_event_time,
                                   !.callback = workers[Len(workers)].callback])
            /\ watch_thread' = Len(workers) + 1
            /\ wlast' = ObserveWatcher("watch", OkUnit, Len(workers) + 1, TRUE)
    /\ UNCHANGED <<kind, caller>>
    /\ UNCHANGED outside_watcher

\* watch(callback); started: RecommendedWatcher::new and watcher.watch of
\* FileWatcher both succeed
watch(cb, started) ==
    /\ kind # "none"
    /\ caller.pc = "idle"
    /\ IF already_running(kind, watcher, watch_thread)
       THEN /\ wlast' = ObserveWatcher("watch", WatcherError("Watcher is already running"),
                                       0, wlast.watching)
            /\ UNCHANGED <<watcher, stop_tx, watch_thread, workers>>
       ELSE IF kind = "file" /\ ~started
       THEN /\ \E message \in StartFailures :
                  wlast' = ObserveWatcher("watch", WatcherError(message), 0, wlast.watching)
            /\ UNCHANGED <<watcher, stop_tx, watch_thread, workers>>
       ELSE /\ Len(workers) < MaxWorkers
            /\ watcher' = (kind = "file")
            /\ stop_tx' = Len(workers) + 1
            /\ workers' = Append(workers, Worker(IF kind = "etcd" THEN "start" ELSE "check", cb))
            /\ watch_thread' = Len(workers) + 1
            /\ wlast' = ObserveWatcher("watch", OkUnit, Len(workers) + 1, TRUE)
    /\ UNCHANGED <<kind, caller>>
    /\ UNCHANGED outside_watcher

\* stop_tx.send(()): the signal reaches the channel while the worker owns
\* the receiver, the error of a send to a dropped receiver is ignored
send(ws, tx) ==
    IF tx # 0 /\ Live(ws[tx]) THEN [ws EXCEPT ![tx].signals = @ + 1] ELSE ws

\* if let Some(handle) = self.watch_thread.take()
handle_assumed(t) == TRUE
handle_present(t) == t # 0

\* the body of stop up to the join, run as stop or inside drop: without a
\* handle it returns at once
stop_to_join(op, joining, after) ==
    /\ kind # "none"
    /\ caller.pc = "idle"
    /\ stop_tx' = 0
    /\ workers' = send(workers, stop_tx)
    /\ IF handle_present(watch_thread)
       THEN /\ watch_thread' = 0
            /\ caller' = Caller(joining, watch_thread)
            /\ wlast' = ObserveWatcher(op, NoRet, watch_thread, FALSE)
            /\ UNCHANGED watcher
       ELSE /\ watcher' = FALSE
            /\ caller' = Caller(after, 0)
            /\ wlast' = ObserveWatcher(op, OkUnit, 0, FALSE)
            /\ UNCHANGED watch_thread
    /\ UNCHANGED kind
    /\ UNCHANGED outside_watcher

\* stop, up to the join
stop_call == stop_to_join("stop", "joining", "idle")

\* JoinHandle::join returns when the thread has ended
join_returns_at_once(at) == TRUE
join_returns(at) == at \in {"done", "panicked"}

stop_from_join_clearing(joining, after) ==
    /\ caller.pc = joining
    /\ caller.handle \in 1..Len(workers)
    /\ join_returns(workers[caller.handle].state)
    /\ wlast' = [wlast EXCEPT !.ret =
                    IF workers[caller.handle].state = "panicked"
                    THEN WatcherError("Failed to join watcher thread")
                    ELSE OkUnit]
    /\ watcher' = FALSE
    /\ caller' = Caller(after, 0)
    /\ UNCHANGED <<kind, stop_tx, watch_thread, workers>>
    /\ UNCHANGED outside_watcher

\* the body of stop from the join: Err when the worker panicked
\* (FileWatcher then keeps self.watcher), else the notify watcher is
\* dropped and Ok returned
stop_from_join(joining, after) ==
    /\ caller.pc = joining
    /\ caller.handle \in 1..Len(workers)
    /\ join_returns(workers[caller.handle].state)
    /\ IF workers[caller.handle].state = "panicked"
       THEN /\ wlast' = [wlast EXCEPT !.ret = WatcherError("Failed to join watcher thread")]
            /\ UNCHANGED watcher
       ELSE /\ wlast' = [wlast EXCEPT !.ret = OkUnit]
            /\ watcher' = FALSE
    /\ caller' = Caller(after, 0)
    /\ UNCHANGED <<kind, stop_tx, watch_thread, workers>>
    /\ UNCHANGED outside_watcher

\* stop, from the join to the return
stop_join == stop_from_join("joining", "idle")

\* a drop without the Drop impl: the fields are dropped, the worker is
\* detached and never told to stop
drop_call_default ==
    /\ kind # "none"
    /\ caller.pc = "idle"
    /\ stop_tx' = 0
    /\ watch_thread' = 0
    /\ watcher' = FALSE
    /\ caller' = Caller("dropped", 0)
    /\ wlast' = ObserveWatcher("drop", OkUnit, 0, FALSE)
    /\ UNCHANGED <<kind, workers>>
    /\ UNCHANGED outside_watcher

\* impl Drop: let _ = self.stop(), up to the join
drop_call == stop_to_join("drop", "dropping", "dropped")

\* impl Drop, from the join: the result of stop is discarded and the
\* watcher is gone
drop_join == stop_from_join("dropping", "dropped")

\* a step of worker t
worker_step(t, from, to) ==
    /\ t \in 1..Len(workers)
    /\ workers[t].state = from
    /\ workers' = [workers EXCEPT ![t].state = to]
    /\ UNCHANGED <<kind, watcher, stop_tx, watch_thread, caller, wlast>>
    /\ UNCHANGED outside_watcher

\* EtcdWatcher: the thread builds its tokio runtime, and returns if it
\* cannot
worker_start(t, ok) == worker_step(t, "start", IF ok THEN "check" ELSE "done")

\* the head of the loop: stop_rx.try_recv().is_ok() ends the thread
worker_check_draining(t) ==
    /\ t \in 1..Len(workers)
    /\ workers[t].state = "check"
    /\ workers' = [workers EXCEPT ![t] =
                     IF @.signals > 0
                     THEN [@ EXCEPT !.state = "poll", !.signals = @ - 1]
                     ELSE [@ EXCEPT !.state = "poll"]]
    /\ UNCHANGED <<kind, watcher, stop_tx, watch_thread, caller, wlast>>
    /\ UNCHANGED outside_watcher
worker_check(t) ==
    /\ t \in 1..Len(workers)
    /\ workers[t].state = "check"
    /\ workers' = [workers EXCEPT ![t] =
                     IF @.signals > 0
                     THEN [@ EXCEPT !.state = "done", !.signals = @ - 1]
                     ELSE [@ EXCEPT !.state = "poll"]]
    /\ UNCHANGED <<kind, watcher, stop_tx, watch_thread, caller, wlast>>
    /\ UNCHANGED outside_watcher

\* the wait for a change (at most 100 ms): a change to report calls the
\* callback, anything else leads back to the head of the loop
worker_poll(t, change) == worker_step(t, "poll", IF change THEN "callback" ELSE "check")

\* callback(key) begins in worker t for the event e
Call(t, key, e) == [thread |-> t, key |-> key, at |-> now, event |-> e]

\* the configuration of the watcher at hand: FileWatcher.file_path (a file
\* of the directory "dir"), EtcdWatcher.prefix, RedisWatcher.namespace;
\* strings that are taken apart are sequences of characters
file_path == "dir/x.yaml"
watch_prefix == <<"p", "/">>
namespace == <<"n", ":">>

\* str::starts_with, the slice &str[n..], str::replace
starts_with(str, start) ==
    /\ Len(start) <= Len(str)
    /\ SubSeq(str, 1, Len(start)) = start

strip(str, n) == SubSeq(str, n + 1, Len(str))

replace(str, from, to) ==
    [i \in 1..Len(str) |-> IF str[i] = from THEN to ELSE str[i]]

\* EtcdWatcher: key_str without the watch prefix, '/' replaced by '.'
etcd_key(key_str) ==
    replace(IF watch_prefix # <<>> /\ starts_with(key_str, watch_prefix)
            THEN strip(key_str, Len(watch_prefix))
            ELSE key_str, "/", ".")

\* the callback returns: EtcdWatcher goes on with the next event of the
\* response in hand, and every worker is back at the head of its loop when
\* there is none
worker_return_once(t) ==
    /\ t \in 1..Len(workers)
    /\ workers[t].state = "callback"
    /\ workers' = [workers EXCEPT ![t].state = "check", ![t].rest = <<>>]
    /\ UNCHANGED <<kind, watcher, stop_tx, watch_thread, caller, wlast, now, calls>>
    /\ UNCHANGED outside_events
worker_return(t) ==
    /\ t \in 1..Len(workers)
    /\ workers[t].state = "callback"
    /\ IF workers[t].rest = <<>>
       THEN /\ workers' = [workers EXCEPT ![t].state = "check"]
            /\ UNCHANGED calls
       ELSE /\ workers' = [workers EXCEPT ![t].rest = Tail(@)]
            /\ calls' = Append(calls, Call(t, etcd_key(Head(workers[t].rest).key),
                                           Head(workers[t].rest)))
    /\ UNCHANGED <<kind, watcher, stop_tx, watch_thread, caller, wlast, now>>
    /\ UNCHANGED outside_events

\* the callback panics: the thread unwinds
worker_panic(t) == worker_step(t, "callback", "panicked")

InitWatcher ==
    /\ sources = <<>>
    /\ cache = EmptyMap
    /\ watchers = 0
    /\ pc = "idle"
    /\ last = Observe("new", "", "", NoRet, <<>>, {}, FALSE, <<>>)
    /\ kind \in WatcherKinds
    /\ watcher_new

WorkerIds == 1..Len(workers)

NextWatcher ==
    \/ \E cb \in Callbacks, started \in BOOLEAN : watch(cb, started)
    \/ stop_call
    \/ stop_join
    \/ drop_call
    \/ drop_join
    \/ \E t \in WorkerIds, ok \in BOOLEAN : worker_start(t, ok)
    \/ \E t \in WorkerIds : worker_check(t)
    \/ \E t \in WorkerIds, change \in BOOLEAN : worker_poll(t, change)
    \/ \E t \in WorkerIds : worker_return(t)
    \/ \E t \in WorkerIds : worker_panic(t)

SpecWatcher == InitWatcher /\ [][NextWatcher]_vars

\* the scheduler runs every thread that can take a step: the worker gets
\* through its loop (each wait in it is bounded: 100 ms poll, 5 s sleep
\* before a reconnect), a callback that does not panic returns, and a join
\* whose thread has ended returns
FairWatcher ==
    /\ WF_vars(stop_join)
    /\ WF_vars(drop_join)
    /\ \A t \in 1..MaxWorkers :
          /\ WF_vars(\E ok \in BOOLEAN : worker_start(t, ok))
          /\ WF_vars(worker_check(t))
          /\ WF_vars(\E change \in BOOLEAN : worker_poll(t, change))
          /\ WF_vars(worker_return(t))

SpecWatcherFair == InitWatcher /\ [][NextWatcher]_vars /\ FairWatcher

----------------------------------------------------------------------------
(* The event loops of the workers: what reaches the event channel of a     *)
(* worker, and what the worker does with it.                               *)

\* the files of the watched directory, and the path lists of the events
\* notify reports for it
OtherPath == "dir/y.yaml"
EventPaths == {<<file_path>>, <<OtherPath>>, <<OtherPath, file_path>>}

\* what the notify channel carries: Ok(event) with the paths of the event,
\* or Err
NotifyResults ==
    {[ok |-> TRUE, paths |-> paths] : paths \in EventPaths}
        \cup {[ok |-> FALSE, paths |-> <<>>]}

\* the keys of the etcd store and of the Redis database, inside and outside
\* of the watch prefix and of the namespace
EtcdKeys == {<<"p", "/", "a", "/", "b">>, <<"q", "/", "a">>}
RedisKeys == {<<"n", ":", "a">>, <<"m", ":", "a">>}

\* the transactions on the etcd store: the keys they change, in order
EtcdChanges == {<<k>> : k \in EtcdKeys} \cup {<<j, k>> : j, k \in EtcdKeys}

\* the text before the key in the name of a keyspace notification channel,
\* as one character
Keyspace == <<"__keyspace@0__:">>

RECURSIVE arrivals(_)
\* the events delivered to the workers ws, all in all
arrivals(ws) == IF ws = <<>> THEN 0 ELSE Head(ws).arrived + arrivals(Tail(ws))

\* another n events are delivered
room(n) == arrivals(workers) + n <= MaxEvents

\* Instant::now() moves on; only the FileWatcher worker reads it
tick ==
    /\ kind = "file"
    /\ now < MaxTime
    /\ now' = now + 1
    /\ UNCHANGED calls
    /\ UNCHANGED watcher_vars
    /\ UNCHANGED outside_events

\* the notify watcher, which watches the parent directory of the file,
\* sends an event (or an error) to the channel made by the watch that
\* spawned worker t
notify_event(t, result) ==
    /\ kind = "file"
    /\ watcher
    /\ t = Len(workers)
    /\ t > 0
    /\ room(1)
    /\ workers' = [workers EXCEPT
                     ![t].event_rx = Append(@, [id |-> workers[t].arrived + 1,
                                                ok |-> result.ok,
                                                paths |-> result.paths]),
                     ![t].arrived = @ + 1]
    /\ UNCHANGED <<kind, watcher, stop_tx, watch_thread, caller, wlast>>
    /\ UNCHANGED outside_watcher

\* client.watch(watch_prefix, with_prefix): the server reports the events
\* of a transaction whose keys begin with the prefix, in one response
with_prefix(keys) == SelectSeq(keys, LAMBDA k : starts_with(k, watch_prefix))

\* a transaction changes keys of the etcd store while worker t watches
etcd_change(t, keys) ==
    /\ kind = "etcd"
    /\ t \in 1..Len(workers)
    /\ workers[t].state \in {"check", "poll", "callback"}
    /\ LET reported == with_prefix(keys)
           events == [i \in 1..Len(reported) |->
                        [id |-> workers[t].arrived + i, key |-> reported[i]]]
       IN /\ reported # <<>>
          /\ room(Len(reported))
          /\ workers' = [workers EXCEPT
                           ![t].event_rx = Append(@, events),
                           ![t].arrived = @ + Len(reported)]
    /\ UNCHANGED <<kind, watcher, stop_tx, watch_thread, caller, wlast>>
    /\ UNCHANGED outside_watcher

\* psubscribe("__keyspace@0__:{namespace}*"): the channels the pattern
\* matches
psubscribe(channel) == starts_with(channel, Keyspace \o namespace)

\* a key of the Redis database changes while worker t is subscribed
redis_change(t, key) ==
    /\ kind = "redis"
    /\ t \in 1..Len(workers)
    /\ Live(workers[t])
    /\ psubscribe(Keyspace \o key)
    /\ room(1)
    /\ workers' = [workers EXCEPT
                     ![t].event_rx = Append(@, [id |-> workers[t].arrived + 1,
                                                channel |-> Keyspace \o key]),
                     ![t].arrived = @ + 1]
    /\ UNCHANGED <<kind, watcher, stop_tx, watch_thread, caller, wlast>>
    /\ UNCHANGED outside_watcher

\* event.paths.iter().any(|p| p == &file_path)
is_our_file_any(paths, path) == TRUE
is_our_file(paths, path) == \E i \in 1..Len(paths) : paths[i] = path

\* last_event_time.map(|last| now.duration_since(last) >= debounce_delay)
\*                .unwrap_or(true)
should_trigger_always(last_event_time, instant, debounce_delay) == TRUE
should_trigger(last_event_time, instant, debounce_delay) ==
    IF last_event_time.tag = "None"
    THEN TRUE
    ELSE instant - last_event_time.v >= debounce_delay

file_worker_poll_extending(t) ==
    /\ kind = "file"
    /\ t \in 1..Len(workers)
    /\ workers[t].state = "poll"
    /\ IF workers[t].event_rx = <<>>
       THEN /\ workers' = [workers EXCEPT ![t].state = "check"]
            /\ UNCHANGED calls
       ELSE LET event == Head(workers[t].event_rx)
            IN IF /\ event.ok
                  /\ is_our_file(event.paths, file_path)
                  /\ should_trigger(workers[t].last_event_time, now, DebounceDelay)
               THEN /\ workers' = [workers EXCEPT
                                     ![t].event_rx = Tail(@),
                                     ![t].event = SomeVal(event),
                                     ![t].last_event_time = SomeVal(now),
                                     ![t].state = "callback"]
                    /\ calls' = Append(calls, Call(t, file_path, event))
               ELSE /\ workers' = [workers EXCEPT
                                     ![t].event_rx = Tail(@),
                                     ![t].event = SomeVal(event),
                                     ![t].last_event_time = SomeVal(now),
                                     ![t].state = "check"]
                    /\ UNCHANGED calls
    /\ UNCHANGED <<kind, watcher, stop_tx, watch_thread, caller, wlast, now>>
    /\ UNCHANGED outside_events

\* FileWatcher: rx.recv_timeout(100 ms); an event for the file that is not
\* debounced sets last_event_time and calls the callback with the path
file_worker_poll(t) ==
    /\ kind = "file"
    /\ t \in 1..Len(workers)
    /\ workers[t].state = "poll"
    /\ IF workers[t].event_rx = <<>>
       THEN /\ workers' = [workers EXCEPT ![t].state = "check"]
            /\ UNCHANGED calls
       ELSE LET event == Head(workers[t].event_rx)
            IN IF /\ event.ok
                  /\ is_our_file(event.paths, file_path)
                  /\ should_trigger(workers[t].last_event_time, now, DebounceDelay)
               THEN /\ workers' = [workers EXCEPT
                                     ![t].event_rx = Tail(@),
                                     ![t].event = SomeVal(event),
                                     ![t].last_event_time = SomeVal(now),
                                     ![t].state = "callback"]
                    /\ calls' = Append(calls, Call(t, file_path, event))
               ELSE /\ workers' = [workers EXCEPT
                                     ![t].event_rx = Tail(@),
                                     ![t].event = SomeVal(event),
                                     ![t].state = "check"]
                    /\ UNCHANGED calls
    /\ UNCHANGED <<kind, watcher, stop_tx, watch_thread, caller, wlast, now>>
    /\ UNCHANGED outside_events

\* EtcdWatcher: select on stream.message() and a sleep of 100 ms; the
\* callback is called for each event of the response, in order
etcd_worker_poll(t) ==
    /\ kind = "etcd"
    /\ t \in 1..Len(workers)
    /\ workers[t].state = "poll"
    /\ IF workers[t].event_rx = <<>>
       THEN /\ workers' = [workers EXCEPT ![t].state = "check"]
            /\ UNCHANGED calls
       ELSE LET watch_resp == Head(workers[t].event_rx)
            IN /\ workers' = [workers EXCEPT
                                ![t].event_rx = Tail(@),
                                ![t].rest = Tail(watch_resp),
                                ![t].state = "callback"]
               /\ calls' = Append(calls, Call(t, etcd_key(Head(watch_resp).key),
                                              Head(watch_resp)))
    /\ UNCHANGED <<kind, watcher, stop_tx, watch_thread, caller, wlast, now>>
    /\ UNCHANGED outside_events

\* channel.strip_prefix("__keyspace@0__:")
strip_prefix(str, start) ==
    IF starts_with(str, start) THEN SomeVal(strip(str, Len(start))) ELSE NoneVal

\* RedisWatcher: the key of a channel name without the namespace
redis_key(key_with_namespace) ==
    IF starts_with(key_with_namespace, namespace)
    THEN strip(key_with_namespace, Len(namespace))
    ELSE key_with_namespace

\* RedisWatcher: pubsub.get_message() with a read timeout of 100 ms; the
\* callback is called for each message
redis_worker_poll(t) ==
    /\ kind = "redis"
    /\ t \in 1..Len(workers)
    /\ workers[t].state = "poll"
    /\ IF workers[t].event_rx = <<>>
       THEN /\ workers' = [workers EXCEPT ![t].state = "check"]
            /\ UNCHANGED calls
       ELSE LET msg == Head(workers[t].event_rx)
                key_with_namespace == strip_prefix(msg.channel, Keyspace)
            IN IF key_with_namespace.tag = "Some"
               THEN /\ workers' = [workers EXCEPT
                                     ![t].event_rx = Tail(@),
                                     ![t].state = "callback"]
                    /\ calls' = Append(calls, Call(t, redis_key(key_with_namespace.v), msg))
               ELSE /\ workers' = [workers EXCEPT
                                     ![t].event_rx = Tail(@),
                                     ![t].state = "check"]
                    /\ UNCHANGED calls
    /\ UNCHANGED <<kind, watcher, stop_tx, watch_thread, caller, wlast, now>>
    /\ UNCHANGED outside_events

NextEvents ==
    \/ \E started \in BOOLEAN : watch(1, started)
    \/ stop_call
    \/ stop_join
    \/ tick
    \/ \E t \in WorkerIds, result \in NotifyResults : notify_event(t, result)
    \/ \E t \in WorkerIds, keys \in EtcdChanges : etcd_change(t, keys)
    \/ \E t \in WorkerIds, key \in RedisKeys : redis_change(t, key)
    \/ \E t \in WorkerIds, ok \in BOOLEAN : worker_start(t, ok)
    \/ \E t \in WorkerIds : worker_check(t)
    \/ \E t \in WorkerIds : file_worker_poll(t)
    \/ \E t \in WorkerIds : etcd_worker_poll(t)
    \/ \E t \in WorkerIds : redis_worker_poll(t)
    \/ \E t \in WorkerIds : worker_return(t)

SpecEvents == InitWatcher /\ [][NextEvents]_vars

\* a watcher that is started, stopped and started again with any callback,
\* while events for the watched file reach the FileWatcher
NextRestart ==
    \/ \E cb \in Callbacks, started \in BOOLEAN : watch(cb, started)
    \/ stop_call
    \/ stop_join
    \/ tick
    \/ \E t \in WorkerIds : notify_event(t, [ok |-> TRUE, paths |-> <<file_path>>])
    \/ \E t \in WorkerIds, ok \in BOOLEAN : worker_start(t, ok)
    \/ \E t \in WorkerIds : worker_check(t)
    \/ \E t \in WorkerIds : file_worker_poll(t)
    \/ \E t \in WorkerIds, change \in BOOLEAN : kind # "file" /\ worker_poll(t, change)
    \/ \E t \in WorkerIds : worker_return(t)

SpecRestart == InitWatcher /\ [][NextRestart]_vars

----------------------------------------------------------------------------
(* The documented wiring (examples/dynamic_reload.rs): the service sits   *)
(* behind one Arc<Mutex<..>>; the main thread locks it to read values, and *)
(* the callback of the watcher locks it, calls reload, prints the values   *)
(* and lets the guard go.                                                  *)

\* the service as built, with the values its sources loaded first
InitWiring ==
    /\ \E e, y \in {EmptyMap} \cup {(k :> "v1") : k \in Keys} :
          sources = sort_sources(<<NewSource(1, 1, y), NewSource(2, 2, e)>>)
    /\ cache = EmptyMap
    /\ watchers = 0
    /\ pc = "idle"
    /\ last = Observe("new", "", "", NoRet, <<>>, {}, FALSE, <<>>)
    /\ kind = "none"
    /\ watcher_new

\* service.lock().unwrap() in the main thread
main_lock ==
    /\ mutex = "none"
    /\ mutex' = "main"
    /\ UNCHANGED closure
    /\ UNCHANGED <<service_vars, watcher_vars, event_vars, env_vars, lock_vars>>

\* svc.get(key) through a guard of the mutex held by thread th
locked_get(th, k, errs) ==
    /\ mutex = th
    /\ LET g == get_call(sources, cache, k, errs)
       IN /\ cache' = g.cache
          /\ last' = Observe("get", k, "", g.ret, g.queried, g.failed, g.hit, <<>>)
    /\ UNCHANGED <<sources, watchers, pc>>
    /\ UNCHANGED outside_service

\* print_config_values(&service.lock().unwrap()): the gets of the main
\* thread
main_get(k, errs) == locked_get("main", k, errs)

\* the guard of the main thread is dropped
main_unlock ==
    /\ mutex = "main"
    /\ mutex' = "none"
    /\ UNCHANGED closure
    /\ UNCHANGED <<service_vars, watcher_vars, event_vars, env_vars, lock_vars>>

\* the callback: if let Ok(mut svc) = service_clone.lock()
closure_lock_skipped ==
    /\ closure = "idle"
    /\ closure' = "locked"
    /\ UNCHANGED mutex
    /\ UNCHANGED <<service_vars, watcher_vars, event_vars, env_vars, lock_vars>>
closure_lock ==
    /\ closure = "idle"
    /\ mutex = "none"
    /\ mutex' = "callback"
    /\ closure' = "locked"
    /\ UNCHANGED <<service_vars, watcher_vars, event_vars, env_vars, lock_vars>>

\* the callback: svc.reload(), the loop over the sources begins
closure_reload_begin ==
    /\ closure = "locked"
    /\ closure' = "reloading"
    /\ pc' = "reloading"
    /\ last' = Observe("reload", "", "", NoRet, <<>>, {}, FALSE, <<>>)
    /\ UNCHANGED <<sources, cache, watchers>>
    /\ UNCHANGED mutex
    /\ UNCHANGED <<watcher_vars, event_vars, env_vars, lock_vars>>

\* the callback: svc.reload(), one source.reload()
closure_reload_source(ok, vals) ==
    /\ closure = "reloading"
    /\ pc = "reloading"
    /\ ~reload_done(last.reloaded, Len(sources))
    /\ LET i == Len(last.reloaded) + 1
       IN /\ sources' = [sources EXCEPT ![i] = source_reload(@, ok, vals)]
          /\ last' = [last EXCEPT !.reloaded = Append(@, [id |-> sources[i].id, ok |-> ok])]
    /\ UNCHANGED <<cache, watchers, pc>>
    /\ UNCHANGED outside_service

\* the callback: svc.reload() invalidates the cache and returns Ok
closure_reload_end ==
    /\ closure = "reloading"
    /\ pc = "reloading"
    /\ reload_done(last.reloaded, Len(sources))
    /\ cache' = invalidate_cache(cache)
    /\ pc' = "idle"
    /\ last' = [last EXCEPT !.ret = OkUnit]
    /\ closure' = "reloaded"
    /\ UNCHANGED <<sources, watchers>>
    /\ UNCHANGED mutex
    /\ UNCHANGED <<watcher_vars, event_vars, env_vars, lock_vars>>

\* the callback: print_config_values(&svc), the gets under the same guard
closure_get(k, errs) ==
    /\ closure = "reloaded"
    /\ locked_get("callback", k, errs)

\* the callback returns: the guard is dropped
closure_unlock ==
    /\ closure = "reloaded"
    /\ closure' = "idle"
    /\ mutex' = IF mutex = "callback" THEN "none" ELSE mutex
    /\ UNCHANGED <<service_vars, watcher_vars, event_vars, env_vars, lock_vars>>

NextWiring ==
    \/ main_lock
    \/ \E k \in Keys : \E errs \in Failures(k) : main_get(k, errs)
    \/ main_unlock
    \/ closure_lock
    \/ closure_reload_begin
    \/ \E ok \in BOOLEAN, vals \in Maps(Keys) : closure_reload_source(ok, vals)
    \/ closure_reload_end
    \/ \E k \in Keys : \E errs \in Failures(k) : closure_get(k, errs)
    \/ closure_unlock

SpecWiring == InitWiring /\ [][NextWiring]_vars

----------------------------------------------------------------------------
(* The documented wiring with its watcher: the callback runs on the worker *)
(* thread of the FileWatcher, and the main thread, which locks the service  *)
(* to read values, is the one that calls watcher.stop() or drops the        *)
(* watcher.                                                                 *)

InitWired ==
    /\ \E e, y \in {EmptyMap} \cup {(k :> "v1") : k \in Keys} :
          sources = sort_sources(<<NewSource(1, 1, y), NewSource(2, 2, e)>>)
    /\ cache = EmptyMap
    /\ watchers = 0
    /\ pc = "idle"
    /\ last = Observe("new", "", "", NoRet, <<>>, {}, FALSE, <<>>)
    /\ kind = "file"
    /\ watcher_new

\* the main thread is not inside stop or drop
main_runs == caller.pc \in {"idle", "dropped"}

\* the callback on worker t: if let Ok(mut svc) = service_clone.lock()
callback_try_lock(t) ==
    /\ t \in 1..Len(workers)
    /\ workers[t].state = "callback"
    /\ closure = "idle"
    /\ IF mutex = "none"
       THEN /\ mutex' = "callback"
            /\ closure' = "locked"
            /\ UNCHANGED watcher_vars
       ELSE /\ workers' = [workers EXCEPT ![t].state = "check"]
            /\ UNCHANGED <<kind, watcher, stop_tx, watch_thread, caller, wlast>>
            /\ UNCHANGED wiring_vars
    /\ UNCHANGED <<service_vars, event_vars, env_vars, lock_vars>>
callback_lock(t) ==
    /\ t \in 1..Len(workers)
    /\ workers[t].state = "callback"
    /\ closure_lock

\* the callback on worker t returns: the guard is dropped and the worker
\* is back at the head of its loop
callback_return(t) ==
    /\ t \in 1..Len(workers)
    /\ workers[t].state = "callback"
    /\ closure = "reloaded"
    /\ closure' = "idle"
    /\ mutex' = "none"
    /\ workers' = [workers EXCEPT ![t].state = "check"]
    /\ UNCHANGED <<kind, watcher, stop_tx, watch_thread, caller, wlast>>
    /\ UNCHANGED <<service_vars, event_vars, env_vars, lock_vars>>

NextWired ==
    \/ main_runs /\ main_lock
    \/ \E k \in Keys : main_runs /\ main_get(k, {})
    \/ main_runs /\ main_unlock
    \/ \E started \in BOOLEAN : watch(1, started)
    \/ stop_call
    \/ stop_join
    \/ drop_call
    \/ drop_join
    \/ \E t \in WorkerIds : worker_check(t)
    \/ \E t \in WorkerIds, change \in BOOLEAN : worker_poll(t, change)
    \/ \E t \in WorkerIds : callback_lock(t)
    \/ closure_reload_begin
    \/ \E ok \in BOOLEAN, vals \in Maps(Keys) : closure_reload_source(ok, vals)
    \/ closure_reload_end
    \/ \E k \in Keys : closure_get(k, {})
    \/ \E t \in WorkerIds : callback_return(t)

\* the scheduler runs every thread that can take a step: the worker gets
\* through its loop, the callback goes on once it has the lock and returns
\* after its reads, and a join whose thread has ended returns
FairWired ==
    /\ WF_vars(stop_join)
    /\ WF_vars(drop_join)
    /\ WF_vars(closure_reload_begin)
    /\ WF_vars(\E ok \in BOOLEAN, vals \in Maps(Keys) : closure_reload_source(ok, vals))
    /\ WF_vars(closure_reload_end)
    /\ \A t \in 1..MaxWorkers :
          /\ WF_vars(worker_check(t))
          /\ WF_vars(\E change \in BOOLEAN : worker_poll(t, change))
          /\ WF_vars(callback_lock(t))
          /\ WF_vars(callback_return(t))

SpecWired == InitWired /\ [][NextWired]_vars /\ FairWired

----------------------------------------------------------------------------
(* A watcher handed to the service: register_watcher takes the boxed      *)
(* watcher by value, so its maker can call watch and stop on it only       *)
(* before.                                                                 *)

\* a service with one source, and a watcher as constructed
InitRegister ==
    /\ \E vals \in Maps(Keys) : sources = <<NewSource(1, 1, vals)>>
    /\ cache = EmptyMap
    /\ watchers = 0
    /\ pc = "idle"
    /\ last = Observe("new", "", "", NoRet, <<>>, {}, FALSE, <<>>)
    /\ kind \in WatcherKinds
    /\ watcher_new

\* the watcher is still its maker's: it has not been moved into the service
owned == watchers = 0

NextRegister ==
    \/ \E k \in Keys : get(k, {})
    \/ owned /\ register_watcher
    \/ \E cb \in Callbacks, started \in BOOLEAN : owned /\ watch(cb, started)
    \/ owned /\ stop_call
    \/ stop_join
    \/ \E t \in WorkerIds, ok \in BOOLEAN : worker_start(t, ok)
    \/ \E t \in WorkerIds : worker_check(t)
    \/ \E t \in WorkerIds, change \in BOOLEAN : worker_poll(t, change)
    \/ \E t \in WorkerIds : worker_return(t)

SpecRegister == InitRegister /\ [][NextRegister]_vars

----------------------------------------------------------------------------
(* ConfigValue (src/src/domain/config_value.rs): a string with typed       *)
(* views. The views parse the characters of the string; integers are kept  *)
(* as numerals (a sign and the digits without leading zeros), since the    *)
(* 64-bit ones do not fit the integers of the checker.                     *)

\* the strings the sources hold under SpecValues
TypedValues == {"42", "-7", "+0", "4294967296", "256", "yes", "On", "maybe", "3.5", "inf", ""}

\* str::chars of those strings
Chars ==
    ("42" :> <<"4", "2">>) @@
    ("-7" :> <<"-", "7">>) @@
    ("+0" :> <<"+", "0">>) @@
    ("4294967296" :> <<"4", "2", "9", "4", "9", "6", "7", "2", "9", "6">>) @@
    ("256" :> <<"2", "5", "6">>) @@
    ("yes" :> <<"y", "e", "s">>) @@
    ("On" :> <<"O", "n">>) @@
    ("maybe" :> <<"m", "a", "y", "b", "e">>) @@
    ("3.5" :> <<"3", ".", "5">>) @@
    ("inf" :> <<"i", "n", "f">>) @@
    ("" :> <<>>)

TypeConversionError(target_type) == [tag |-> "TypeConversionError", v |-> target_type]

DigitChars == <<"0", "1", "2", "3", "4", "5", "6", "7", "8", "9">>
IsDigit(c) == \E i \in 1..10 : DigitChars[i] = c
DigitOf(c) == (CHOOSE i \in 1..10 : DigitChars[i] = c) - 1
AllDigits(str) == \A i \in 1..Len(str) : IsDigit(str[i])

\* char::to_lowercase on the letters of TypedValues
to_lowercase(str) ==
    [i \in 1..Len(str) |->
        CASE str[i] = "O" -> "o"
          [] OTHER -> str[i]]

RECURSIVE strip_zeros(_)
strip_zeros(digits) ==
    IF digits # <<>> /\ Head(digits) = "0" THEN strip_zeros(Tail(digits)) ELSE digits

\* a <= b for numerals without leading zeros
RECURSIVE lex_le(_, _)
lex_le(a, b) ==
    IF a = <<>> THEN TRUE
    ELSE IF DigitOf(Head(a)) # DigitOf(Head(b)) THEN DigitOf(Head(a)) < DigitOf(Head(b))
    ELSE lex_le(Tail(a), Tail(b))

numeral_le(a, b) == Len(a) < Len(b) \/ (Len(a) = Len(b) /\ lex_le(a, b))

\* the bounds of the integer types: the digits of MAX and of -MIN
IntBounds ==
    [i32 |-> [signed |-> TRUE, max |-> <<"2", "1", "4", "7", "4", "8", "3", "6", "4", "7">>,
              min |-> <<"2", "1", "4", "7", "4", "8", "3", "6", "4", "8">>],
     i64 |-> [signed |-> TRUE, max |-> <<"9", "2", "2", "3", "3", "7", "2", "0", "3", "6", "8", "5", "4", "7", "7", "5", "8", "0", "7">>,
              min |-> <<"9", "2", "2", "3", "3", "7", "2", "0", "3", "6", "8", "5", "4", "7", "7", "5", "8", "0", "8">>],
     u32 |-> [signed |-> FALSE, max |-> <<"4", "2", "9", "4", "9", "6", "7", "2", "9", "5">>, min |-> <<>>],
     u64 |-> [signed |-> FALSE, max |-> <<"1", "8", "4", "4", "6", "7", "4", "4", "0", "7", "3", "7", "0", "9", "5", "5", "1", "6", "1", "5">>, min |-> <<>>],
     u8 |-> [signed |-> FALSE, max |-> <<"2", "5", "5">>, min |-> <<>>]]

\* str::parse::<iN / uN>: an optional sign ('-' only for signed types), one
\* digit or more, and a value inside the bounds of the type
parse_int(str, ty, target_type) ==
    LET signed == str # <<>> /\ (str[1] = "+" \/ (str[1] = "-" /\ IntBounds[ty].signed))
        negative == signed /\ str[1] = "-"
        digits == IF signed THEN Tail(str) ELSE str
        numeral == strip_zeros(digits)
    IN IF digits = <<>> \/ ~AllDigits(digits)
       THEN TypeConversionError(target_type)
       ELSE IF numeral_le(numeral, IF negative THEN IntBounds[ty].min ELSE IntBounds[ty].max)
       THEN OkVal([negative |-> negative /\ numeral # <<>>, digits |-> numeral, point |-> 0])
       ELSE TypeConversionError(target_type)

\* str::parse::<f64> on the forms of TypedValues: an optional sign, then
\* "inf", "infinity" or "nan" in any case, or digits with at most one '.'
parse_f64(str) ==
    LET signed == str # <<>> /\ str[1] \in {"+", "-"}
        negative == signed /\ str[1] = "-"
        body == IF signed THEN Tail(str) ELSE str
        points == {i \in 1..Len(body) : body[i] = "."}
        digits == SelectSeq(body, IsDigit)
    IN IF to_lowercase(body) \in {<<"i", "n", "f">>, <<"n", "a", "n">>,
                                  <<"i", "n", "f", "i", "n", "i", "t", "y">>}
       THEN OkVal([negative |-> negative, digits |-> to_lowercase(body), point |-> 0])
       ELSE IF /\ digits # <<>>
               /\ Cardinality(points) <= 1
               /\ Len(digits) + Cardinality(points) = Len(body)
       THEN OkVal([negative |-> negative, digits |-> digits,
                   point |-> IF points = {} THEN 0
                             ELSE Len(body) - (CHOOSE i \in points : TRUE)])
       ELSE TypeConversionError("float")

\* as_bool: the lowercased string against the accepted words, then
\* str::parse::<bool>, which takes "true" and "false" only
as_bool(value) ==
    LET lower == to_lowercase(Chars[value])
    IN IF lower \in {<<"t", "r", "u", "e">>, <<"y", "e", "s">>, <<"1">>, <<"o", "n">>}
       THEN OkVal(TRUE)
       ELSE IF lower \in {<<"f", "a", "l", "s", "e">>, <<"n", "o">>, <<"0">>, <<"o", "f", "f">>}
       THEN OkVal(FALSE)
       ELSE IF Chars[value] = <<"t", "r", "u", "e">> THEN OkVal(TRUE)
       ELSE IF Chars[value] = <<"f", "a", "l", "s", "e">> THEN OkVal(FALSE)
       ELSE TypeConversionError("boolean")

as_i32(value) == parse_int(Chars[value], "i32", "integer")
as_i64(value) == parse_int(Chars[value], "i64", "integer")
as_u32(value) == parse_int(Chars[value], "u32", "integer")
as_u64(value) == parse_int(Chars[value], "u64", "integer")
as_f64(value) == parse_f64(Chars[value])

\* parse::<T>, for T = u8
parse(value) == parse_int(Chars[value], "u8", "u8")

Accessors == {"as_bool", "as_i32", "as_i64", "as_u32", "as_u64", "as_f64", "parse"}

\* value.accessor(key)
convert(accessor, value) ==
    CASE accessor = "as_bool" -> as_bool(value)
      [] accessor = "as_i32" -> as_i32(value)
      [] accessor = "as_i64" -> as_i64(value)
      [] accessor = "as_u32" -> as_u32(value)
      [] accessor = "as_u64" -> as_u64(value)
      [] accessor = "as_f64" -> as_f64(value)
      [] accessor = "parse" -> parse(value)

\* the caller has a ConfigValue: the one its get returned, which its
\* accessor calls borrow
HasValue(obs) ==
    \/ obs.op = "get" /\ obs.ret.tag = "Ok"
    \/ obs.op \in Accessors

ValueOf(obs) == IF obs.op = "get" THEN obs.ret.v ELSE obs.arg

\* a typed accessor is called on the value the caller has
accessor_call_remembering(accessor) ==
    /\ pc = "idle"
    /\ HasValue(last)
    /\ last' = Observe(accessor, last.key, ValueOf(last),
                       IF last.ret.tag = "TypeConversionError" THEN last.ret
                       ELSE convert(accessor, ValueOf(last)),
                       <<>>, {}, FALSE, <<>>)
    /\ UNCHANGED <<sources, cache, watchers, pc>>
    /\ UNCHANGED outside_service
accessor_call(accessor) ==
    /\ pc = "idle"
    /\ HasValue(last)
    /\ last' = Observe(accessor, last.key, ValueOf(last),
                       convert(accessor, ValueOf(last)), <<>>, {}, FALSE, <<>>)
    /\ UNCHANGED <<sources, cache, watchers, pc>>
    /\ UNCHANGED outside_service

\* a service over one source that holds some of the strings
InitValues ==
    /\ \E D \in SUBSET CacheKeys : \E vals \in [D -> TypedValues] :
          sources = <<NewSource(1, 1, vals)>>
    /\ cache = EmptyMap
    /\ watchers = 0
    /\ pc = "idle"
    /\ last = Observe("new", "", "", NoRet, <<>>, {}, FALSE, <<>>)
    /\ kind = "none"
    /\ watcher_new

NextValues ==
    \/ \E k \in CacheKeys : get(k, {})
    \/ \E accessor \in Accessors : accessor_call(accessor)

SpecValues == InitValues /\ [][NextValues]_vars

----------------------------------------------------------------------------
(* EnvVarAdapter (src/src/adapters/env_var.rs): the process environment,   *)
(* loaded on the first read and kept until reload. get and all_keys take   *)
(* &self, so threads that share the adapter can be inside get_cache        *)
(* together; reload takes &mut self.                                       *)

MAX_ENV_KEY_LEN == 512

\* EnvVarAdapter::with_prefix("P_"): prefix, replace_underscores = true
env_prefix == <<"P", "_">>

\* the names of the variables that are set and unset, inside and outside
\* of the prefix
EnvNames == {<<"P", "_", "A", "_", "B">>, <<"Q", "_", "A">>}

Environments == UNION {[D -> Values] : D \in SUBSET EnvNames}

\* the key load makes of a variable name: the prefix stripped, '_'
\* replaced by '.'
transformed_key(key) == replace(strip(key, Len(env_prefix)), "_", ".")

\* load(): the variables of the environment that are not oversized and
\* begin with the prefix, under their transformed keys
load(env) ==
    LET kept == {key \in DOMAIN env :
                    /\ Len(key) <= MAX_ENV_KEY_LEN
                    /\ starts_with(key, env_prefix)}
    IN [k \in {transformed_key(key) : key \in kept} |->
           env[CHOOSE key \in kept : transformed_key(key) = k]]

\* a thread inside or outside of get_cache
EnvThread(at, new_cache) == [pc |-> at, new_cache |-> new_cache]

\* the process as it starts: any environment, an adapter as with_prefix
\* makes it, and the threads that share it
InitEnv ==
    /\ sources = <<>>
    /\ cache = EmptyMap
    /\ watchers = 0
    /\ pc = "idle"
    /\ last = Observe("new", "", "", NoRet, <<>>, {}, FALSE, <<>>)
    /\ kind = "none"
    /\ watcher = FALSE
    /\ stop_tx = 0
    /\ watch_thread = 0
    /\ workers = <<>>
    /\ caller = Caller("idle", 0)
    /\ wlast = ObserveWatcher("new", NoRet, 0, FALSE)
    /\ now = 0
    /\ calls = <<>>
    /\ mutex = "none"
    /\ closure = "idle"
    /\ environ \in Environments
    /\ env_cache = NoneVal
    /\ env_threads = [th \in 1..MaxEnvThreads |-> EnvThread("idle", EmptyMap)]
    /\ served = {}
    /\ cache_lock = [readers |-> {}, writer |-> 0]
    /\ getters = <<>>

\* std::env::set_var, remove_var: the environment becomes env
env_change(env) ==
    /\ env # environ
    /\ environ' = env
    /\ UNCHANGED <<env_cache, env_threads, served>>
    /\ UNCHANGED <<service_vars, watcher_vars, event_vars, wiring_vars, lock_vars>>

\* get or all_keys, get_cache up to the end of the read guard: a cache
\* that is Some is cloned and returned, a cache that is None is a miss
get_cache_read(th) ==
    /\ env_threads[th].pc = "idle"
    /\ IF env_cache.tag = "Some"
       THEN /\ served' = served \cup {env_cache.v}
            /\ UNCHANGED env_threads
       ELSE /\ env_threads' = [env_threads EXCEPT ![th] = EnvThread("load", EmptyMap)]
            /\ UNCHANGED served
    /\ UNCHANGED <<environ, env_cache>>
    /\ UNCHANGED <<service_vars, watcher_vars, event_vars, wiring_vars, lock_vars>>

\* get_cache on a miss: let new_cache = self.load()
get_cache_load(th) ==
    /\ env_threads[th].pc = "load"
    /\ env_threads' = [env_threads EXCEPT ![th] = EnvThread("store", load(environ))]
    /\ UNCHANGED <<environ, env_cache, served>>
    /\ UNCHANGED <<service_vars, watcher_vars, event_vars, wiring_vars, lock_vars>>

\* get_cache on a miss: *cache_guard = Some(new_cache.clone()) under the
\* write guard, and new_cache returned
get_cache_store(th) ==
    /\ env_threads[th].pc = "store"
    /\ env_cache' = SomeVal(env_threads[th].new_cache)
    /\ served' = served \cup {env_threads[th].new_cache}
    /\ env_threads' = [env_threads EXCEPT ![th] = EnvThread("idle", EmptyMap)]
    /\ UNCHANGED environ
    /\ UNCHANGED <<service_vars, watcher_vars, event_vars, wiring_vars, lock_vars>>

\* reload(&mut self): no thread is inside a read; the cache becomes None
env_reload ==
    /\ \A th \in 1..MaxEnvThreads : env_threads[th].pc = "idle"
    /\ env_cache' = NoneVal
    /\ served' = {}
    /\ UNCHANGED <<environ, env_threads>>
    /\ UNCHANGED <<service_vars, watcher_vars, event_vars, wiring_vars, lock_vars>>

NextEnv ==
    \/ \E env \in Environments : env_change(env)
    \/ \E th \in 1..MaxEnvThreads : get_cache_read(th)
    \/ \E th \in 1..MaxEnvThreads : get_cache_load(th)
    \/ \E th \in 1..MaxEnvThreads : get_cache_store(th)
    \/ env_reload

SpecEnv == InitEnv /\ [][NextEnv]_vars

----------------------------------------------------------------------------
(* The locking of DefaultConfigService (src/src/service/default_service.rs): *)
(* get takes &self and can run on several threads at once, each taking the   *)
(* read guard of the cache for the lookup and the write guard for the       *)
(* insert; add_source and reload take &mut self, so they run while no other *)
(* call is inside the service, and take the write guard in invalidate_cache.*)

\* the thread that holds &mut self
Owner == MaxGetters + 1

\* a thread inside or outside of get, with the key it asks for and the
\* value it found in the sources
Getter(at, k, v) == [pc |-> at, key |-> k, value |-> v]

\* RwLock::read: granted while no thread holds the write guard
read(l, th) ==
    IF l.writer = 0 THEN SomeVal([l EXCEPT !.readers = @ \cup {th}]) ELSE NoneVal

\* RwLock::write: granted while no thread holds any guard
write_shared(l, th) == read(l, th)
write(l, th) ==
    IF l.writer = 0 /\ l.readers = {} THEN SomeVal([l EXCEPT !.writer = th]) ELSE NoneVal

\* a guard goes out of scope
drop_guard(l, th) ==
    [readers |-> l.readers \ {th}, writer |-> IF l.writer = th THEN 0 ELSE l.writer]

InitLock ==
    /\ sources = <<>>
    /\ cache = EmptyMap
    /\ watchers = 0
    /\ pc = "idle"
    /\ last = Observe("new", "", "", NoRet, <<>>, {}, FALSE, <<>>)
    /\ kind = "none"
    /\ watcher = FALSE
    /\ stop_tx = 0
    /\ watch_thread = 0
    /\ workers = <<>>
    /\ caller = Caller("idle", 0)
    /\ wlast = ObserveWatcher("new", NoRet, 0, FALSE)
    /\ now = 0
    /\ calls = <<>>
    /\ mutex = "none"
    /\ closure = "idle"
    /\ environ = EmptyMap
    /\ env_cache = NoneVal
    /\ env_threads = <<>>
    /\ served = {}
    /\ cache_lock = [readers |-> {}, writer |-> 0]
    /\ getters = [th \in 1..MaxGetters |-> Getter("idle", "", "")]

\* no shared borrow of the service is alive: what &mut self requires
exclusive == \A th \in 1..MaxGetters : getters[th].pc = "idle"

\* add_source up to the call of invalidate_cache: push and sort
lock_add_source(p, vals) ==
    /\ pc = "idle"
    /\ exclusive
    /\ Len(sources) < MaxLockSources
    /\ sources' = sort_sources(Append(sources, NewSource(Len(sources) + 1, p, vals)))
    /\ pc' = "invalidate_cache"
    /\ last' = Observe("add_source", "", "", NoRet, <<>>, {}, FALSE, <<>>)
    /\ UNCHANGED <<cache, watchers, lock_vars>>
    /\ UNCHANGED <<watcher_vars, event_vars, wiring_vars, env_vars>>

\* reload up to the call of invalidate_cache: the loop over the sources
lock_reload(oks, vals) ==
    /\ pc = "idle"
    /\ exclusive
    /\ sources # <<>>
    /\ sources' = [i \in 1..Len(sources) |-> source_reload(sources[i], oks[i], vals[i])]
    /\ pc' = "invalidate_cache"
    /\ last' = Observe("reload", "", "", NoRet, <<>>, {}, FALSE, <<>>)
    /\ UNCHANGED <<cache, watchers, lock_vars>>
    /\ UNCHANGED <<watcher_vars, event_vars, wiring_vars, env_vars>>

\* invalidate_cache: self.cache.write()
invalidate_cache_write ==
    /\ pc = "invalidate_cache"
    /\ write(cache_lock, Owner).tag = "Some"
    /\ cache_lock' = write(cache_lock, Owner).v
    /\ pc' = "clear"
    /\ UNCHANGED <<sources, cache, watchers, last, getters>>
    /\ UNCHANGED <<watcher_vars, event_vars, wiring_vars, env_vars>>

\* invalidate_cache: cache.clear(), the guard dropped, and the return of
\* add_source or reload
invalidate_cache_clear ==
    /\ pc = "clear"
    /\ cache' = invalidate_cache(cache)
    /\ cache_lock' = drop_guard(cache_lock, Owner)
    /\ pc' = "idle"
    /\ last' = [last EXCEPT !.ret = OkUnit]
    /\ UNCHANGED <<sources, watchers, getters>>
    /\ UNCHANGED <<watcher_vars, event_vars, wiring_vars, env_vars>>

\* get: self.cache.read()
get_read(th, k) ==
    /\ pc = "idle"
    /\ getters[th].pc = "idle"
    /\ read(cache_lock, th).tag = "Some"
    /\ cache_lock' = read(cache_lock, th).v
    /\ getters' = [getters EXCEPT ![th] = Getter("lookup", k, "")]
    /\ UNCHANGED service_vars
    /\ UNCHANGED <<watcher_vars, event_vars, wiring_vars, env_vars>>

get_lookup_keeping_guard(th) ==
    /\ getters[th].pc = "lookup"
    /\ LET k == getters[th].key
       IN IF k \in DOMAIN cache
          THEN /\ getters' = [getters EXCEPT ![th] = Getter("idle", "", "")]
               /\ last' = Observe("get", k, "", OkVal(cache[k]), <<>>, {}, TRUE, <<>>)
               /\ cache_lock' = drop_guard(cache_lock, th)
          ELSE /\ getters' = [getters EXCEPT ![th] = Getter("query", k, "")]
               /\ UNCHANGED <<last, cache_lock>>
    /\ UNCHANGED <<sources, cache, watchers, pc>>
    /\ UNCHANGED <<watcher_vars, event_vars, wiring_vars, env_vars>>

\* get: cache.get(key) under the read guard; a hit returns the clone, a
\* miss leaves the block; the guard is dropped either way
get_lookup(th) ==
    /\ getters[th].pc = "lookup"
    /\ LET k == getters[th].key
       IN IF k \in DOMAIN cache
          THEN /\ getters' = [getters EXCEPT ![th] = Getter("idle", "", "")]
               /\ last' = Observe("get", k, "", OkVal(cache[k]), <<>>, {}, TRUE, <<>>)
          ELSE /\ getters' = [getters EXCEPT ![th] = Getter("query", k, "")]
               /\ UNCHANGED last
    /\ cache_lock' = drop_guard(cache_lock, th)
    /\ UNCHANGED <<sources, cache, watchers, pc>>
    /\ UNCHANGED <<watcher_vars, event_vars, wiring_vars, env_vars>>

\* get: query_sources(key)?.ok_or_else(..)?, no guard held; the `?`
\* returns the error
get_query(th, errs) ==
    /\ getters[th].pc = "query"
    /\ LET k == getters[th].key
           q == query_sources(sources, k, errs)
           r == ok_or_else(q.res, k)
       IN IF r.tag = "Ok"
          THEN /\ getters' = [getters EXCEPT ![th] = Getter("write", k, r.v)]
               /\ UNCHANGED last
          ELSE /\ getters' = [getters EXCEPT ![th] = Getter("idle", "", "")]
               /\ last' = Observe("get", k, "", r, q.queried, q.failed, FALSE, <<>>)
    /\ UNCHANGED <<sources, cache, watchers, pc, cache_lock>>
    /\ UNCHANGED <<watcher_vars, event_vars, wiring_vars, env_vars>>

\* get: self.cache.write()
get_write(th) ==
    /\ getters[th].pc = "write"
    /\ write(cache_lock, th).tag = "Some"
    /\ cache_lock' = write(cache_lock, th).v
    /\ getters' = [getters EXCEPT ![th].pc = "insert"]
    /\ UNCHANGED service_vars
    /\ UNCHANGED <<watcher_vars, event_vars, wiring_vars, env_vars>>

\* get: cache.insert(key, value.clone()), the guard dropped, Ok(value)
get_insert(th) ==
    /\ getters[th].pc = "insert"
    /\ cache' = cache_insert(cache, getters[th].key, getters[th].value)
    /\ cache_lock' = drop_guard(cache_lock, th)
    /\ getters' = [getters EXCEPT ![th] = Getter("idle", "", "")]
    /\ last' = Observe("get", getters[th].key, "", OkVal(getters[th].value),
                       <<>>, {}, FALSE, <<>>)
    /\ UNCHANGED <<sources, watchers, pc>>
    /\ UNCHANGED <<watcher_vars, event_vars, wiring_vars, env_vars>>

NextLock ==
    \/ \E p \in Priorities, vals \in Maps(Keys) : lock_add_source(p, vals)
    \/ \E oks \in [SourceIds -> BOOLEAN], vals \in [SourceIds -> Maps(Keys)] :
          lock_reload(oks, vals)
    \/ invalidate_cache_write
    \/ invalidate_cache_clear
    \/ \E th \in 1..MaxGetters, k \in Keys : get_read(th, k)
    \/ \E th \in 1..MaxGetters : get_lookup(th)
    \/ \E th \in 1..MaxGetters, errs \in SUBSET SourceIds : get_query(th, errs)
    \/ \E th \in 1..MaxGetters : get_write(th)
    \/ \E th \in 1..MaxGetters : get_insert(th)

SpecLock == InitLock /\ [][NextLock]_vars

\* the same threads while the data behind the sources changes: what a
\* source answers can differ between two calls of its get
NextRace ==
    \/ \E p \in Priorities, vals \in Maps(Keys) : lock_add_source(p, vals)
    \/ \E oks \in [SourceIds -> BOOLEAN], vals \in [SourceIds -> Maps(Keys)] :
          lock_reload(oks, vals)
    \/ invalidate_cache_write
    \/ invalidate_cache_clear
    \/ \E th \in 1..MaxGetters, k \in Keys : get_read(th, k)
    \/ \E th \in 1..MaxGetters : get_lookup(th)
    \/ \E th \in 1..MaxGetters, errs \in SUBSET SourceIds : get_query(th, errs)
    \/ \E th \in 1..MaxGetters : get_write(th)
    \/ \E th \in 1..MaxGetters : get_insert(th)
    \/ \E i \in SourceIds, k \in Keys, v \in Values : source_change(i, k, TRUE, v)
    \/ \E i \in SourceIds, k \in Keys : source_change(i, k, FALSE, "")

SpecRace == InitLock /\ [][NextRace]_vars

----------------------------------------------------------------------------
(* Vocabulary of the properties *)

\* a step of the service that is a returned call of get, has, get_or_default
ReturnOf(op) ==
    /\ pc = "idle"
    /\ pc' = "idle"
    /\ sources' = sources
    /\ last'.op = op

GetStep == ReturnOf("get")
HasStep == ReturnOf("has")
GetOrDefaultStep == ReturnOf("get_or_default")

\* the last call of the service has returned and it was reload
Reloaded == pc = "idle" /\ last.op = "reload"

\* registry positions of the sources that hold k
Holding(srcs, k) == {i \in 1..Len(srcs) : k \in DOMAIN srcs[i].values}

\* registry positions of the sources that answer get(k) with a value in the
\* call observed by obs: they hold k and their get did not fail
Answering(srcs, obs) ==
    {i \in Holding(srcs, obs.key) : srcs[i].id \notin obs.failed}

First(S) == CHOOSE i \in S : \A j \in S : i <= j

\* the first-match value over the answering sources, in registry order
FirstMatch(srcs, obs) ==
    IF Answering(srcs, obs) = {} THEN ConfigKeyNotFound(obs.key)
    ELSE OkVal(srcs[First(Answering(srcs, obs))].values[obs.key])

\* the sources a resolution calls: all up to the first that answers
CalledIds(srcs, obs) ==
    LET n == IF Answering(srcs, obs) = {} THEN Len(srcs)
             ELSE First(Answering(srcs, obs))
    IN [i \in 1..n |-> srcs[i].id]

RegistryIds(srcs) == [i \in 1..Len(srcs) |-> srcs[i].id]

\* the call observed by obs went to the sources and resolved the key afresh
ResolvedAfresh(srcs, obs) ==
    /\ ~obs.hit
    /\ obs.queried = CalledIds(srcs, obs)
    /\ obs.ret = FirstMatch(srcs, obs)

----------------------------------------------------------------------------
\* the winner of the call observed by obs, by priority
PrecedenceAt(srcs, obs) ==
    \A i, j \in Answering(srcs, obs) :
        ( /\ srcs[i].priority > srcs[j].priority
          /\ \A h \in Answering(srcs, obs) \ {i} : srcs[h].priority < srcs[i].priority )
        => /\ obs.ret = OkVal(srcs[i].values[obs.key])
           /\ obs.queried # <<>>
           /\ obs.queried[Len(obs.queried)] = srcs[i].id

(* C1: a get that misses the cache returns the value of the source of     *)
(* higher priority: when two sources answer for the key with priorities   *)
(* p1 > p2 and p1 is the highest priority among the answering sources,    *)
(* the value returned is the one of the p1 source, whichever of the two   *)
(* was registered first.                                                  *)
C1_Precedence ==
    [][(GetStep /\ ~last'.hit) => PrecedenceAt(sources', last')]_vars

\* the source registered second has the higher priority and wins
C1_Witness ==
    /\ last.op = "get" /\ ~last.hit /\ last.failed = {}
    /\ \E i, j \in 1..Len(sources) :
        /\ sources[i].id > sources[j].id
        /\ sources[i].priority > sources[j].priority
        /\ last.key \in DOMAIN sources[i].values
        /\ last.key \in DOMAIN sources[j].values
        /\ sources[i].values[last.key] # sources[j].values[last.key]
        /\ last.ret = OkVal(sources[i].values[last.key])
        /\ last.queried = <<sources[i].id>>

----------------------------------------------------------------------------
\* the winner of the call observed by obs, among equal priorities
TieBreakAt(srcs, obs) ==
    \A i, j \in Answering(srcs, obs) :
        ( /\ srcs[i].priority = srcs[j].priority
          /\ srcs[i].id < srcs[j].id
          /\ \A h \in Answering(srcs, obs) \ {i} :
                \/ srcs[h].priority < srcs[i].priority
                \/ srcs[h].priority = srcs[i].priority /\ srcs[h].id > srcs[i].id )
        => /\ obs.ret = OkVal(srcs[i].values[obs.key])
           /\ obs.queried # <<>>
           /\ obs.queried[Len(obs.queried)] = srcs[i].id

(* C2: among answering sources of equal (highest) priority a get that     *)
(* misses the cache returns the value of the one registered first, also   *)
(* after further sources were added and the registry was sorted again.    *)
C2_StableTieBreak ==
    [][(GetStep /\ ~last'.hit) => TieBreakAt(sources', last')]_vars

\* sources 1 and 2 tie and hold different values, source 3 was added after
\* them with a higher priority and does not hold the key: source 1 wins
C2_Witness ==
    /\ last.op = "get" /\ ~last.hit /\ last.failed = {}
    /\ Len(sources) = 3
    /\ sources[1].id = 3 /\ sources[2].id = 1 /\ sources[3].id = 2
    /\ sources[1].priority > sources[2].priority
    /\ sources[2].priority = sources[3].priority
    /\ last.key \notin DOMAIN sources[1].values
    /\ last.key \in DOMAIN sources[2].values
    /\ last.key \in DOMAIN sources[3].values
    /\ sources[2].values[last.key] # sources[3].values[last.key]
    /\ last.ret = OkVal(sources[2].values[last.key])
    /\ last.queried = <<3, 1>>

----------------------------------------------------------------------------
(* C3: a get(key) that follows a successful get(key), with no other call  *)
(* of the service between them, returns the same value and calls get on   *)
(* no source, whatever happened to the data of the sources in between.    *)

C3_CacheTransparency ==
    [][( /\ last.op = "get"
         /\ last.ret.tag = "Ok"
         /\ GetStep
         /\ last'.key = last.key )
       => (last'.ret = last.ret /\ last'.queried = <<>>)]_vars

\* a get served from the cache although no source holds that value any more
C3_Witness ==
    /\ last.op = "get" /\ last.hit /\ last.queried = <<>>
    /\ last.ret.tag = "Ok"
    /\ Holding(sources, last.key) # {}
    /\ \A i \in Holding(sources, last.key) : sources[i].values[last.key] # last.ret.v

----------------------------------------------------------------------------
(* C4: the first get(key) after reload() returned goes to the sources and *)
(* returns the first-match value over their contents after the reload,    *)
(* or ConfigKeyNotFound if no source answers; nothing cached before the   *)
(* reload is served.                                                      *)

C4_ReloadClearsCache ==
    [][Reloaded => /\ cache = EmptyMap
                   /\ GetStep => ResolvedAfresh(sources', last')]_vars

\* a reload over two sources has returned, and a source holds the key
C4_Witness ==
    /\ Reloaded
    /\ last.ret = OkUnit
    /\ Len(last.reloaded) = 2
    /\ cache = EmptyMap
    /\ Holding(sources, "a") # {}

----------------------------------------------------------------------------
\* some source.reload() of the reload logged in log failed
SomeReloadFailed(log) == \E n \in 1..Len(log) : ~log[n].ok

----------------------------------------------------------------------------
(* C6: in a get that misses the cache, a source whose get fails counts as *)
(* not holding the key: the sources behind it are still called in         *)
(* registry order, the first value found among them is returned, and the  *)
(* error of the source is never what get returns.                         *)

C6_SourceErrorSkipped ==
    [][(GetStep /\ last'.failed # {})
       => /\ ResolvedAfresh(sources', last')
          /\ last'.ret.tag # "SourceError"]_vars

\* the first source of the registry holds the key and failed, the value
\* returned is the one of the source behind it
C6_Witness ==
    /\ last.op = "get" /\ ~last.hit
    /\ Len(sources) = 2
    /\ last.failed = {sources[1].id}
    /\ Holding(sources, last.key) = {1, 2}
    /\ sources[1].values[last.key] # sources[2].values[last.key]
    /\ last.ret = OkVal(sources[2].values[last.key])
    /\ last.queried = RegistryIds(sources)

----------------------------------------------------------------------------
(* C7: get(key) returns an error exactly when the key is not cached and   *)
(* every registered source answers not-found or fails (also when there is *)
(* no source); the error is ConfigKeyNotFound with the requested key.     *)

C7_KeyNotFound ==
    [][GetStep
       => /\ IsErr(last'.ret) <=>
                (last'.key \notin DOMAIN cache /\ Answering(sources', last') = {})
          /\ IsErr(last'.ret) => last'.ret = ConfigKeyNotFound(last'.key)]_vars

\* a source holds the key but its get failed, the other does not hold it
C7_Witness ==
    /\ last.op = "get"
    /\ last.ret = ConfigKeyNotFound("a")
    /\ Len(sources) = 2
    /\ Cardinality(last.failed) = 1
    /\ Cardinality(Holding(sources, "a")) = 1
    /\ Answering(sources, last) = {}
    /\ last.queried = RegistryIds(sources)

----------------------------------------------------------------------------
(* C8: a get that fails leaves the cache as it was, without an entry for  *)
(* the key; the next get for that key goes to the sources again and       *)
(* returns the first-match value as soon as a source answers with one.    *)

C8_NoNegativeCaching ==
    [][/\ (GetStep /\ IsErr(last'.ret))
            => (cache' = cache /\ last'.key \notin DOMAIN cache')
       /\ (last.op = "get" /\ IsErr(last.ret) /\ GetStep /\ last'.key = last.key)
            => ResolvedAfresh(sources', last')]_vars

\* the last call was a get that found no value, no source failed in it,
\* and a source holds the key now
C8_Witness ==
    /\ pc = "idle"
    /\ last.op = "get" /\ IsErr(last.ret) /\ last.failed = {}
    /\ last.key \notin DOMAIN cache
    /\ Holding(sources, last.key) # {}

----------------------------------------------------------------------------
(* C9 as stated: get_or_default(key, d) returns d exactly when no source  *)
(* holds key, and otherwise the live value of the key (the first-match    *)
(* value over the sources). Defaults that equal a possible value are left *)
(* aside, and a source whose get fails counts as not holding the key.     *)

C9_Original ==
    [][(GetOrDefaultStep /\ last'.arg \notin Values)
       => /\ last'.ret = OkVal(last'.arg) <=> Answering(sources', last') = {}
          /\ Answering(sources', last') # {} => last'.ret = FirstMatch(sources', last')]_vars

(* C9 amended: get_or_default(key, d) returns what get(key) would return  *)
(* when that succeeds, which is the cached value when the key is cached   *)
(* and else the first-match value over the answering sources, and the     *)
(* value made from d when key is not cached and no source answers; it     *)
(* never returns an error.                                                *)

C9_GetOrDefault ==
    [][GetOrDefaultStep
       => /\ last'.ret.tag = "Ok"
          /\ last'.ret =
               IF last'.key \in DOMAIN cache THEN OkVal(cache[last'.key])
               ELSE IF Answering(sources', last') = {} THEN OkVal(last'.arg)
               ELSE FirstMatch(sources', last')]_vars

\* the cached value is returned although no source holds the key any more
C9_Witness ==
    /\ last.op = "get_or_default" /\ last.hit
    /\ Holding(sources, last.key) = {}
    /\ sources # <<>>
    /\ last.ret.tag = "Ok"
    /\ last.ret.v # last.arg

----------------------------------------------------------------------------
(* C10: has(key) is true exactly when get(key) would succeed in the same  *)
(* state (key cached, or some source answers with a value); when true the *)
(* resolved value is cached and a get(key) that follows calls no source,  *)
(* when false the cache is unchanged.                                     *)

C10_HasIsGet ==
    [][/\ HasStep =>
            /\ last'.ret = BoolRet(\/ last'.key \in DOMAIN cache
                                   \/ Answering(sources', last') # {})
            /\ last'.ret = BoolRet(TRUE) =>
                 /\ last'.key \in DOMAIN cache'
                 /\ OkVal(cache'[last'.key]) =
                        IF last'.key \in DOMAIN cache THEN OkVal(cache[last'.key])
                        ELSE FirstMatch(sources', last')
                 /\ \A k \in DOMAIN cache : k \in DOMAIN cache' /\ cache'[k] = cache[k]
            /\ last'.ret = BoolRet(FALSE) => cache' = cache
       /\ (last.op = "has" /\ last.ret = BoolRet(TRUE) /\ GetStep /\ last'.key = last.key)
            => (last'.hit /\ last'.queried = <<>>)]_vars

\* has went to the sources, found the key and left it in the cache
C10_Witness ==
    /\ last.op = "has" /\ ~last.hit
    /\ last.ret = BoolRet(TRUE)
    /\ last.queried # <<>>
    /\ last.key \in DOMAIN cache

----------------------------------------------------------------------------
\* a step that registers a source
AddSourceStep == Len(sources') = Len(sources) + 1

\* the registry position of the source registered last
Newest(srcs) == CHOOSE i \in 1..Len(srcs) : srcs[i].id = Len(srcs)

\* the source registered last answers the call observed by obs and has a
\* priority above every other source: its value is the one returned
NewestWins(srcs, obs) ==
    LET n == Newest(srcs)
    IN ( /\ n \in Answering(srcs, obs)
         /\ \A j \in 1..Len(srcs) : j # n => srcs[j].priority < srcs[n].priority )
       => obs.ret = OkVal(srcs[n].values[obs.key])

(* C11: add_source returns normally and leaves the cache empty; the get   *)
(* that follows goes to the sources again, so that when the source just   *)
(* added holds the key with a priority above the one of every older       *)
(* source, it returns the value of the new source and not a value cached  *)
(* before.                                                                *)
C11_AddSourceInvalidates ==
    [][/\ AddSourceStep => (last'.op = "add_source" /\ last'.ret = OkUnit /\ cache' = EmptyMap)
       /\ (last.op = "add_source" /\ GetStep)
            => (ResolvedAfresh(sources', last') /\ NewestWins(sources', last'))]_vars

\* the get after add_source returned the value of the source added last,
\* which differs from the value of the older source
C11_Witness ==
    /\ pc = "idle"
    /\ last.op = "get" /\ ~last.hit /\ last.failed = {}
    /\ Len(sources) = 2
    /\ sources[1].id = 2
    /\ sources[1].priority > sources[2].priority
    /\ last.key \in DOMAIN sources[1].values
    /\ last.key \in DOMAIN sources[2].values
    /\ sources[1].values[last.key] # sources[2].values[last.key]
    /\ last.queried = <<2>>
    /\ last.key \in DOMAIN cache
    /\ cache[last.key] = sources[1].values[last.key]

----------------------------------------------------------------------------
\* srcs is ordered by non-increasing priority, and by registration number
\* among the sources of one priority
RegistryOrdered(srcs) ==
    \A i, j \in 1..Len(srcs) :
        i < j => \/ srcs[i].priority > srcs[j].priority
                 \/ /\ srcs[i].priority = srcs[j].priority
                    /\ srcs[i].id < srcs[j].id

(* C12: in every reachable state of the service (whatever calls of        *)
(* add_source, get, has, get_or_default, reload and register_watcher led  *)
(* to it, build() being a sequence of add_source) the registry is ordered *)
(* by non-increasing priority, the sources of equal priority standing in  *)
(* the order of their registration.                                       *)
C12_RegistryOrdered == RegistryOrdered(sources)

\* the source registered second stands first, and a reload has gone over
\* the registry since
C12_Witness ==
    /\ Reloaded
    /\ Len(sources) = 2
    /\ sources[1].id = 2
    /\ sources[1].priority > sources[2].priority
    /\ Len(last.reloaded) = 2

----------------------------------------------------------------------------
\* the sources whose reload has been called, in the order of the calls
ReloadedIds(log) == [i \in 1..Len(log) |-> log[i].id]

(* C13: reload calls reload on every registered source exactly once, in   *)
(* registry order: the n-th call goes to the n-th source of the registry  *)
(* and changes no other source, and when reload returns the sources       *)
(* called are the registry, in its order. The cache is untouched when     *)
(* reload starts and while sources are being reloaded, and it is emptied  *)
(* at the return, after the last source's reload, whether the reloads of  *)
(* the sources failed or not.                                             *)
C13_ReloadOrder ==
    [][/\ pc' = "reloading" => cache' = cache
       /\ (pc = "idle" /\ pc' = "reloading") => (last'.reloaded = <<>> /\ sources' = sources)
       /\ (pc = "reloading" /\ pc' = "reloading" /\ last' # last) =>
            LET n == Len(last.reloaded) + 1
            IN /\ n <= Len(sources)
               /\ Len(last'.reloaded) = n
               /\ SubSeq(last'.reloaded, 1, n - 1) = last.reloaded
               /\ last'.reloaded[n].id = sources[n].id
               /\ \A j \in 1..Len(sources) : j # n => sources'[j] = sources[j]
               /\ RegistryIds(sources') = RegistryIds(sources)
       /\ (pc = "reloading" /\ pc' = "idle") =>
            /\ ReloadedIds(last.reloaded) = RegistryIds(sources)
            /\ last'.reloaded = last.reloaded
            /\ sources' = sources
            /\ cache' = EmptyMap]_vars

\* the first of two sources has been reloaded, the second not yet, and the
\* cache still holds the entry it held when reload was called
C13_Witness ==
    /\ pc = "reloading"
    /\ Len(sources) = 2
    /\ Len(last.reloaded) = 1
    /\ last.reloaded[1].id = sources[1].id
    /\ cache # EmptyMap

----------------------------------------------------------------------------
AdapterReloads ==
    {"YamlFileAdapter::reload", "EtcdAdapter::reload", "RedisAdapter::reload"}

(* C14: when the reload of a source adapter fails (YamlFileAdapter: the   *)
(* metadata, the size limit, the read or the parse; EtcdAdapter and       *)
(* RedisAdapter: the connection, the fetch or the join), the key/value    *)
(* map the adapter had loaded before is left as it was.                   *)
C14_FailedReloadKeepsMap ==
    [][(last'.op \in AdapterReloads /\ last'.ret # OkUnit)
       => /\ last'.arg \in {"metadata", "size", "read", "parse", "connect", "fetch", "join"}
          /\ sources' = sources]_vars

\* the YAML file did not parse and the adapter still holds a loaded value
C14_Witness ==
    /\ last.op = "YamlFileAdapter::reload"
    /\ last.ret = ParseError
    /\ last.arg = "parse"
    /\ sources[1].values # EmptyMap

----------------------------------------------------------------------------
(* C15: as the ConfigurationService trait documents for reload, it        *)
(* returns Ok(()) when all sources were successfully reloaded and an      *)
(* Err(ConfigError) when an error occurred while reloading: the result is *)
(* Ok exactly when no source's reload failed.                             *)
C15_ReloadReportsErrors ==
    [][(pc = "reloading" /\ pc' = "idle")
       => /\ last'.ret = OkUnit <=> ~SomeReloadFailed(last'.reloaded)
          /\ IsErr(last'.ret) <=> SomeReloadFailed(last'.reloaded)]_vars

----------------------------------------------------------------------------
----------------------------------------------------------------------------
\* who is registered, and in which order: the registry without the data
\* the sources hold
Registration(srcs) ==
    [i \in 1..Len(srcs) |-> [id |-> srcs[i].id, priority |-> srcs[i].priority]]

(* C17: only add_source changes the source registry: a step that changes  *)
(* which sources are registered or their order is a call of add_source,   *)
(* which adds one source and keeps the others; get, has, get_or_default,  *)
(* reload (whether the sources' reloads fail or not) and register_watcher *)
(* add, remove and reorder nothing.                                       *)
C17_OnlyAddSource ==
    [][/\ Registration(sources') # Registration(sources)
            => /\ pc = "idle" /\ pc' = "idle"
               /\ last'.op = "add_source"
               /\ Len(sources') = Len(sources) + 1
               /\ \A i \in 1..Len(sources) : \E j \in 1..Len(sources') :
                      Registration(sources')[j] = Registration(sources)[i]
       /\ (pc = "reloading" \/ pc' = "reloading")
            => Registration(sources') = Registration(sources)
       /\ ReturnOf("register_watcher") => sources' = sources]_vars

\* a reload with a failing source has returned, a watcher is registered,
\* and the two sources are registered as before
C17_Witness ==
    /\ Reloaded
    /\ SomeReloadFailed(last.reloaded)
    /\ watchers > 0
    /\ Registration(sources) = <<[id |-> 2, priority |-> 2], [id |-> 1, priority |-> 1]>>

----------------------------------------------------------------------------
(* Vocabulary of the watcher properties *)

\* a call of watch, or of stop up to its join
WatchStep == wlast' # wlast /\ wlast'.op = "watch"
StopStep == caller.pc = "idle" /\ wlast' # wlast /\ wlast'.op = "stop"

\* the last call was a stop and it has returned Ok
StoppedOk == caller.pc = "idle" /\ wlast.op = "stop" /\ wlast.ret = OkUnit

Terminated(ws) == \A t \in 1..Len(ws) : ~Live(ws[t])

\* nothing of a running watcher is left: a watch would start afresh
NotWatching ==
    /\ ~watcher
    /\ stop_tx = 0
    /\ watch_thread = 0
    /\ Terminated(workers)
    /\ ~already_running(kind, watcher, watch_thread)

----------------------------------------------------------------------------
(* C18: watch on a watcher that is already watching (a watch returned Ok  *)
(* and stop has not been called since) returns the WatcherError "Watcher  *)
(* is already running"; it spawns no second worker and leaves the running *)
(* worker, the callback that worker holds, the stop channel and the       *)
(* thread handle as they were.                                            *)
C18_WatchWhileWatching ==
    [][(wlast.watching /\ WatchStep)
       => /\ wlast'.ret = WatcherError("Watcher is already running")
          /\ wlast'.watching
          /\ workers' = workers
          /\ UNCHANGED <<watcher, stop_tx, watch_thread, caller>>]_vars

\* a second watch was refused while the first worker is alive and holds
\* the callback of the first watch
C18_Witness ==
    /\ wlast.op = "watch"
    /\ wlast.ret = WatcherError("Watcher is already running")
    /\ wlast.watching
    /\ Len(workers) = 1
    /\ Live(workers[1])
    /\ workers[1].callback = 1
    /\ watch_thread = 1

----------------------------------------------------------------------------
(* C19: stop joins the worker: when a stop that had a worker to join has  *)
(* returned Ok, that worker has ended without a panic, and as long as no  *)
(* watch follows no worker is alive, so no callback is running and none   *)
(* can start.                                                             *)
C19_StopJoins ==
    StoppedOk =>
        /\ wlast.thread # 0 => workers[wlast.thread].state = "done"
        /\ Terminated(workers)

\* stop has joined the worker and returned Ok
C19_Witness ==
    /\ StoppedOk
    /\ wlast.thread = 1
    /\ Len(workers) = 1
    /\ workers[1].state = "done"
    /\ workers[1].signals = 0

----------------------------------------------------------------------------
(* C20: stop is idempotent: called on a watcher that never started a      *)
(* worker, or again after a stop that returned Ok, it returns Ok without  *)
(* entering a join, changes no worker and leaves the watcher not          *)
(* watching.                                                              *)
C20_StopIdempotent ==
    [][((Len(workers) = 0 \/ StoppedOk) /\ StopStep)
       => /\ caller'.pc = "idle"
          /\ wlast'.ret = OkUnit
          /\ workers' = workers
          /\ NotWatching']_vars

\* a second stop has returned Ok after the stop that joined the worker
C20_Witness ==
    /\ StoppedOk
    /\ wlast.thread = 0
    /\ Len(workers) = 1
    /\ workers[1].state = "done"
    /\ NotWatching

----------------------------------------------------------------------------
(* C21: a stop that has a worker to join eventually returns, whatever the *)
(* worker is doing when stop is called (also inside a callback) and       *)
(* however many changes arrive, provided every callback that is invoked   *)
(* returns or panics: the worker comes back to the head of its loop,      *)
(* finds the stop signal there and ends.                                  *)
C21_StopReturns == (caller.pc = "joining") ~> (caller.pc = "idle")

\* stop waits in the join while the worker is inside the callback and the
\* stop signal waits in the channel
C21_Witness ==
    /\ caller.pc = "joining"
    /\ caller.handle = 1
    /\ workers[1].state = "callback"
    /\ workers[1].signals = 1

----------------------------------------------------------------------------
(* C23: dropping a watcher performs stop: when the drop of a FileWatcher, *)
(* EtcdWatcher or RedisWatcher has completed, every worker the watcher    *)
(* spawned has ended (the one it was running has been joined), so no      *)
(* callback runs or starts after the drop.                                *)
C23_DropStops ==
    caller.pc = "dropped" =>
        /\ wlast.op = "drop"
        /\ wlast.thread # 0 => ~Live(workers[wlast.thread])
        /\ Terminated(workers)

\* a watcher was dropped while watching: its worker was joined
C23_Witness ==
    /\ caller.pc = "dropped"
    /\ wlast.thread = 1
    /\ Len(workers) = 1
    /\ workers[1].state = "done"
    /\ workers[1].callback = 1

----------------------------------------------------------------------------
\* the invocations of the callback by worker t, in order
CallsOf(log, t) == SelectSeq(log, LAMBDA c : c.thread = t)

\* worker t takes the event at the head of its channel in this step
Takes(t) ==
    /\ t \in 1..Len(workers)
    /\ workers[t].event_rx # <<>>
    /\ workers'[t].event_rx = Tail(workers[t].event_rx)

\* the event names the path
Names(event, path) == event.ok /\ path \in {event.paths[i] : i \in 1..Len(event.paths)}

\* any two invocations by one worker are debounce_delay apart or more
Spaced(log) ==
    \A i, j \in 1..Len(log) :
        (i < j /\ log[i].thread = log[j].thread)
            => log[j].at - log[i].at >= DebounceDelay

(* C22: for the worker of one watch() of a FileWatcher, the first event   *)
(* for the watched file invokes the callback, and any two invocations of  *)
(* the callback are at least debounce_delay apart (by the clock readings  *)
(* the worker compares), so a burst inside one window yields at least one *)
(* callback and at most one per window.                                   *)
C22_Debounce ==
    [][kind = "file" =>
         /\ Spaced(calls')
         /\ \A t \in 1..Len(workers) :
               (/\ Takes(t)
                /\ Names(Head(workers[t].event_rx), file_path)
                /\ CallsOf(calls, t) = <<>>)
                   => calls' = Append(calls, Call(t, file_path, Head(workers[t].event_rx)))]_vars

\* two events for the file, a debounce delay or more apart, both reported
C22_Witness ==
    /\ kind = "file"
    /\ Len(calls) = 2
    /\ calls[1].thread = 1 /\ calls[2].thread = 1
    /\ calls[1].event.id = 1 /\ calls[2].event.id = 2
    /\ calls[2].at - calls[1].at = DebounceDelay

----------------------------------------------------------------------------
(* C29: a FileWatcher on a file receives the events of the file's parent  *)
(* directory, and its worker invokes the callback only for events whose   *)
(* path list contains the watched file's path: an event for other files   *)
(* invokes no callback and leaves last_event_time alone (no debounce      *)
(* window starts), and the argument of every invocation is the watched    *)
(* file's path.                                                           *)
C29_OnlyOurFile ==
    [][kind = "file" =>
         /\ \A i \in 1..Len(calls') :
               /\ calls'[i].key = file_path
               /\ Names(calls'[i].event, file_path)
         /\ \A t \in 1..Len(workers) :
               (Takes(t) /\ ~Names(Head(workers[t].event_rx), file_path))
                   => /\ calls' = calls
                      /\ workers'[t].last_event_time = workers[t].last_event_time
                      /\ workers'[t].state = "check"]_vars

\* the worker has taken an event for another file of the directory: no
\* callback, no debounce window
C29_Witness ==
    /\ kind = "file"
    /\ Len(workers) = 1
    /\ workers[1].state = "check"
    /\ workers[1].event.tag = "Some"
    /\ workers[1].event.v.ok
    /\ workers[1].event.v.paths = <<OtherPath>>
    /\ workers[1].last_event_time.tag = "None"
    /\ calls = <<>>

----------------------------------------------------------------------------
\* the events of the log, by their numbers of arrival
EventIds(log) == [i \in 1..Len(log) |-> log[i].event.id]

\* the events that wait in the channel of worker w or in the response it
\* has in hand
RECURSIVE Waiting(_)
Waiting(rx) == IF rx = <<>> THEN 0 ELSE Len(Head(rx)) + Waiting(Tail(rx))

Pending(w) ==
    IF kind = "etcd" THEN Waiting(w.event_rx) + Len(w.rest) ELSE Len(w.event_rx)

\* the key of the store an event is about
StoreKey(event) ==
    IF kind = "etcd" THEN event.key ELSE strip(event.channel, Len(Keyspace))

----------------------------------------------------------------------------
\* a get returns in this step
Gets == last' # last /\ last'.op = "get"

\* every entry of the cache c is a value that a source of srcs holds
Coherent(srcs, c) ==
    \A k \in DOMAIN c :
        \E i \in 1..Len(srcs) :
            k \in DOMAIN srcs[i].values /\ srcs[i].values[k] = c[k]

(* C24: in the documented wiring get and reload never overlap: reload     *)
(* runs only while the callback holds the lock of the service and a get   *)
(* only while its thread holds it, so a get finds the sources and the     *)
(* cache either as they were before the reload or as the reload left      *)
(* them; and whenever the lock is free every cache entry is a value the   *)
(* sources hold now, so a get after the reload released the lock returns  *)
(* post-reload data.                                                      *)
C24_LockSerializes ==
    [][/\ pc' = "reloading" => mutex' = "callback"
       /\ Gets => /\ pc = "idle"
                  /\ mutex \in {"main", "callback"}
                  /\ last'.ret.tag = "Ok" =>
                        \E i \in 1..Len(sources) :
                            /\ last'.key \in DOMAIN sources[i].values
                            /\ sources[i].values[last'.key] = last'.ret.v
       /\ mutex' = "none" => Coherent(sources', cache')]_vars

\* the main thread, holding the lock after a reload has let it go, got a
\* value that only the reload brought
C24_Witness ==
    /\ mutex = "main"
    /\ closure = "idle"
    /\ last.op = "get"
    /\ ~last.hit
    /\ last.ret = OkVal("v2")

----------------------------------------------------------------------------
(* C26: register_watcher only stores the watcher: the step leaves the     *)
(* watcher (no watch, no stop, no worker spawned, no callback set), the   *)
(* cache, the source registry and the clock of the callbacks as they      *)
(* were, adds one stored watcher and returns Ok; a watcher registered     *)
(* before any watch() has no worker, so it detects nothing and triggers   *)
(* no reload.                                                             *)
C26_OnlyStores ==
    [][/\ watchers' # watchers =>
             /\ watchers' = watchers + 1
             /\ last'.op = "register_watcher"
             /\ last'.ret = OkUnit
             /\ UNCHANGED <<sources, cache, pc>>
             /\ UNCHANGED <<watcher_vars, event_vars, wiring_vars, env_vars, lock_vars>>
       /\ (watchers' > 0 /\ wlast'.op = "new") =>
             /\ workers' = <<>>
             /\ ~watcher'
             /\ pc' = "idle"]_vars

\* a watcher that watches is registered while the cache holds a value
C26_Witness ==
    /\ watchers = 1
    /\ last.op = "register_watcher"
    /\ wlast.op = "watch"
    /\ wlast.watching
    /\ Len(workers) = 1
    /\ cache # EmptyMap

----------------------------------------------------------------------------
(* C27: a typed accessor that fails returns TypeConversionError to that   *)
(* call only: the call leaves the value, the cache and the sources as     *)
(* they were, so later gets are unaffected, and every accessor call is    *)
(* evaluated afresh from the string, whatever earlier calls returned.     *)
C27_AccessorFrame ==
    [][last'.op \in Accessors =>
          /\ last'.arg = ValueOf(last)
          /\ last'.ret = convert(last'.op, last'.arg)
          /\ last'.ret.tag \in {"Ok", "TypeConversionError"}
          /\ UNCHANGED <<sources, cache, watchers, pc>>
          /\ UNCHANGED outside_service]_vars

\* as_u32 has failed on a cached value that a wider type takes
C27_Witness ==
    /\ last.op = "as_u32"
    /\ last.arg = "4294967296"
    /\ last.ret = TypeConversionError("integer")
    /\ as_u64(last.arg).tag = "Ok"
    /\ "a" \in DOMAIN cache
    /\ cache["a"] = "4294967296"

----------------------------------------------------------------------------
(* C28: the EnvVarAdapter serves every read between two reloads from one  *)
(* snapshot of the environment, the one its first read loaded: a change   *)
(* of the environment does not show through the adapter until reload().   *)
C28_OneSnapshot == Cardinality(served) <= 1

----------------------------------------------------------------------------
(* C25 as stated: the cache and the source registry are both behind the    *)
(* read/write lock, so every change of either is made by a step that holds *)
(* the write guard with no read guard out, and a get holds the read guard  *)
(* while it reads the registry.                                            *)
C25_RegistryUnderLock ==
    [][/\ (cache' # cache \/ sources' # sources) =>
              (cache_lock.writer # 0 /\ cache_lock.readers = {})
       /\ \A th \in 1..MaxGetters :
              (getters[th].pc = "query" /\ getters'[th].pc # "query") =>
                  th \in cache_lock.readers]_vars

(* C25: the read/write lock guards the cache. A get looks the key up while *)
(* it holds a read guard, which other gets can hold at the same time and   *)
(* no writer can; every change of the cache, the insert after a miss and   *)
(* the clear of add_source and reload, is made by the one holder of the    *)
(* write guard while no read guard is out. The registry is outside of the  *)
(* lock: a get reads it holding no guard, and it changes only in           *)
(* add_source and reload, which run while no get is inside the service.    *)
C25_CacheUnderLock ==
    [][/\ cache_lock.writer # 0 => cache_lock.readers = {}
       /\ cache' # cache =>
              /\ cache_lock.writer # 0
              /\ cache_lock.readers = {}
              /\ cache_lock'.writer = 0
       /\ \A th \in 1..MaxGetters :
              /\ getters[th].pc = "lookup" =>
                     th \in cache_lock.readers /\ cache_lock.writer = 0
              /\ getters[th].pc = "insert" => cache_lock.writer = th
              /\ getters[th].pc \in {"idle", "query", "write"} =>
                     th \notin cache_lock.readers /\ cache_lock.writer # th
       /\ pc = "clear" => cache_lock.writer = Owner
       /\ sources' # sources =>
              /\ \A th \in 1..MaxGetters : getters[th].pc = "idle"
              /\ cache_lock = [readers |-> {}, writer |-> 0]]_vars

\* two gets hold the read guard at once, both for a key that is cached
C25_Witness ==
    /\ Cardinality(cache_lock.readers) = 2
    /\ \A th \in cache_lock.readers : getters[th].key \in DOMAIN cache

----------------------------------------------------------------------------
\* in the call observed by obs a source that holds the key failed, and a
\* source of lower priority answered with the value returned
Shadowed(srcs, obs) ==
    /\ Answering(srcs, obs) # {}
    /\ \E i \in Holding(srcs, obs.key) :
          /\ srcs[i].id \in obs.failed
          /\ srcs[i].priority > srcs[First(Answering(srcs, obs))].priority

(* C31: when a get misses the cache, a source of higher priority that     *)
(* holds the key fails and a source of lower priority answers, the value  *)
(* of the lower source is returned and cached; a get for a cached key     *)
(* returns the cached value and calls no source, whatever the sources     *)
(* hold or answer by then; and a cached entry stays as it is until        *)
(* add_source or reload empties the cache.                                *)
C31_FallbackCached ==
    [][/\ (GetStep /\ ~last'.hit /\ Shadowed(sources', last'))
            => /\ last'.ret = FirstMatch(sources', last')
               /\ last'.key \in DOMAIN cache'
               /\ OkVal(cache'[last'.key]) = last'.ret
       /\ (GetStep /\ last'.key \in DOMAIN cache)
            => /\ last'.hit
               /\ last'.queried = <<>>
               /\ last'.ret = OkVal(cache[last'.key])
               /\ cache' = cache
       /\ (\E k \in DOMAIN cache : k \notin DOMAIN cache' \/ cache'[k] # cache[k])
            => /\ cache' = EmptyMap
               /\ last'.op \in {"add_source", "reload"}]_vars

\* a get has just cached the value of the lower source, the higher source
\* having failed while it holds another value for the key
C31_Witness ==
    /\ pc = "idle"
    /\ last.op = "get" /\ ~last.hit
    /\ Len(sources) = 2
    /\ sources[1].priority > sources[2].priority
    /\ last.failed = {sources[1].id}
    /\ last.key \in DOMAIN sources[1].values
    /\ last.key \in DOMAIN sources[2].values
    /\ sources[1].values[last.key] # sources[2].values[last.key]
    /\ last.ret = OkVal(sources[2].values[last.key])
    /\ last.key \in DOMAIN cache
    /\ cache[last.key] = sources[2].values[last.key]

----------------------------------------------------------------------------
\* the call observed by obs was a get_or_default that found no value and
\* returned its default: it went to the sources and the cache c it left
\* has no entry for the key
DefaultReturned(obs, c) ==
    /\ obs.op = "get_or_default"
    /\ ~obs.hit
    /\ obs.ret = OkVal(obs.arg)
    /\ obs.key \notin DOMAIN c

\* a returned call for the key of the call before it, in which no source
\* answers with a value
SameKeyUnanswered ==
    /\ last'.key = last.key
    /\ Answering(sources', last') = {}

(* C32 as stated: get_or_default(key, d) on a key that no source holds    *)
(* leaves the cache unchanged, so that in the state it returns in a       *)
(* get(key) fails with the key-not-found error, a has(key) is false and   *)
(* a get_or_default(key, d2) returns d2.                                  *)
C32_NoSourceHolds ==
    [][(GetOrDefaultStep /\ Holding(sources', last'.key) = {})
       => LET k == last'.key
          IN /\ cache' = cache
             /\ get_call(sources', cache', k, {}).ret = ConfigKeyNotFound(k)
             /\ ~is_ok(has_call(sources', cache', k, {}).ret)
             /\ \A d2 \in Defaults :
                   unwrap_or_else(get_call(sources', cache', k, {}).ret, d2)
                       = OkVal(d2)]_vars

(* C32 amended: get_or_default never caches the default. When the key is  *)
(* not cached and no source answers with a value, get_or_default returns  *)
(* the default and leaves the cache unchanged; the call for that key that *)
(* follows asks the sources again, and as long as none answers, a get     *)
(* fails with the key-not-found error, a has is false and a               *)
(* get_or_default returns its own default.                                *)
C32_DefaultNotCached ==
    [][/\ (GetOrDefaultStep /\ ~last'.hit /\ Answering(sources', last') = {})
            => /\ last'.ret = OkVal(last'.arg)
               /\ cache' = cache
               /\ last'.key \notin DOMAIN cache'
       /\ (DefaultReturned(last, cache) /\ SameKeyUnanswered)
            => /\ GetStep => (~last'.hit /\ last'.ret = ConfigKeyNotFound(last'.key))
               /\ HasStep => (~last'.hit /\ last'.ret = BoolRet(FALSE))
               /\ GetOrDefaultStep => (~last'.hit /\ last'.ret = OkVal(last'.arg))]_vars

\* get_or_default has returned a default that a source could hold as a
\* value, with registered sources none of which holds the key, and the
\* cache is empty
C32_Witness ==
    /\ pc = "idle"
    /\ DefaultReturned(last, cache)
    /\ last.arg \in Values
    /\ sources # <<>>
    /\ Holding(sources, last.key) = {}
    /\ cache = EmptyMap

----------------------------------------------------------------------------
\* the time of the last invocation of the callback by worker t, if any
LastCallTime(log, t) ==
    LET own == CallsOf(log, t)
    IN IF own = <<>> THEN NoneVal ELSE SomeVal(own[Len(own)].at)

\* worker t is inside the window that its last invocation opened
InWindow(t) ==
    /\ workers[t].last_event_time.tag = "Some"
    /\ now - workers[t].last_event_time.v < DebounceDelay

(* C33: the debouncing of the FileWatcher is leading-edge only. The       *)
(* timestamp of a worker is the time of its last invocation of the        *)
(* callback and changes in no other step; an event for the watched file   *)
(* that the worker takes inside the window is dropped with no invocation  *)
(* and no change of the timestamp; and an invocation is made only in the  *)
(* step that takes an event for the file from the channel, for that       *)
(* event, so an event dropped inside the window is never reported later.  *)
C33_LeadingEdge ==
    [][kind = "file" =>
         /\ \A t \in 1..Len(workers) :
               /\ workers[t].last_event_time = LastCallTime(calls, t)
               /\ (Takes(t) /\ Names(Head(workers[t].event_rx), file_path) /\ InWindow(t))
                     => /\ calls' = calls
                        /\ workers'[t].last_event_time = workers[t].last_event_time
                        /\ workers'[t].state = "check"
         /\ calls' # calls =>
               \E t \in 1..Len(workers) :
                  /\ Takes(t)
                  /\ Names(Head(workers[t].event_rx), file_path)
                  /\ ~InWindow(t)
                  /\ calls' = Append(calls, Call(t, file_path, Head(workers[t].event_rx)))]_vars

\* a burst of two events for the file: the first was reported, the second
\* was taken inside the window and dropped, and the window has ended with
\* nothing left in the channel
C33_Witness ==
    /\ kind = "file"
    /\ Len(workers) = 1
    /\ workers[1].arrived = 2
    /\ workers[1].event_rx = <<>>
    /\ workers[1].event.tag = "Some"
    /\ workers[1].event.v.id = 2
    /\ Names(workers[1].event.v, file_path)
    /\ Len(calls) = 1
    /\ calls[1].event.id = 1
    /\ now - calls[1].at >= DebounceDelay
    /\ workers[1].state \in {"check", "poll"}

----------------------------------------------------------------------------
\* thread th goes from one place of get to another in this step
Moves(th, from, to) == getters[th].pc = from /\ getters'[th].pc = to

(* C34: a get holds no guard of the cache lock while it queries the       *)
(* sources, so gets for one uncached key can be in the query, or waiting  *)
(* to insert, together. The value a get carries out of the query is a     *)
(* value that a source holds for the key at the query, and it keeps it;   *)
(* each get that found a value inserts its own and returns it, so the     *)
(* cache holds the value inserted last; a hit returns the cached entry;   *)
(* and the cache gets entries from nowhere else.                          *)
C34_UnlockedQuery ==
    [][/\ \A th \in 1..MaxGetters :
            /\ getters[th].pc = "query" =>
                   th \notin cache_lock.readers /\ cache_lock.writer # th
            /\ Moves(th, "query", "write") =>
                   \E i \in Holding(sources, getters[th].key) :
                       getters'[th].value = sources[i].values[getters[th].key]
            /\ (Moves(th, "write", "write") \/ Moves(th, "write", "insert")
                  \/ Moves(th, "insert", "insert")) =>
                   getters'[th].value = getters[th].value
            /\ Moves(th, "insert", "idle") =>
                   /\ getters[th].key \in DOMAIN cache'
                   /\ cache'[getters[th].key] = getters[th].value
                   /\ last'.ret = OkVal(getters[th].value)
            /\ Moves(th, "lookup", "idle") =>
                   last'.ret = OkVal(cache[getters[th].key])
       /\ (cache' # cache /\ cache' # EmptyMap) =>
              \E th \in 1..MaxGetters : Moves(th, "insert", "idle")]_vars

\* one get has inserted its value and another get for the same key, which
\* found another value, holds the write guard and is about to insert
C34_Witness ==
    \E th \in 1..MaxGetters :
        /\ getters[th].pc = "insert"
        /\ getters[th].key \in DOMAIN cache
        /\ cache[getters[th].key] # getters[th].value
        /\ last.op = "get" /\ ~last.hit
        /\ last.ret = OkVal(cache[getters[th].key])

----------------------------------------------------------------------------
\* the thread inside stop or drop holds the service lock, and the worker it
\* joins is in the callback, waiting for that lock
StopDeadlocked ==
    /\ caller.pc \in {"joining", "dropping"}
    /\ mutex = "main"
    /\ workers[caller.handle].state = "callback"
    /\ closure = "idle"

(* C35: in the documented wiring, once the thread inside stop() or drop    *)
(* holds the service lock while the worker it joins waits for that lock in *)
(* the callback, no step leads out of that state: the callback cannot go   *)
(* on and the join does not return. A stop() or drop that joins while its  *)
(* thread does not hold the lock returns.                                  *)
C35_StopUnderLock ==
    /\ [][StopDeadlocked => StopDeadlocked']_vars
    /\ (caller.pc = "joining" /\ mutex # "main") ~> (caller.pc = "idle")
    /\ (caller.pc = "dropping" /\ mutex # "main") ~> (caller.pc = "dropped")

\* stop was called under the lock and joins a worker that waits for it
C35_Witness ==
    /\ StopDeadlocked
    /\ wlast.op = "stop"

----------------------------------------------------------------------------
\* the workers that have not ended
LiveWorkers(ws) == {t \in 1..Len(ws) : Live(ws[t])}

(* C36: a watcher can be restarted. At most one worker of a watcher is     *)
(* alive at any time; a watch that follows a stop that returned Ok is not  *)
(* rejected as already running; every watch that returns Ok spawns one     *)
(* worker in its initial state, with an empty event channel and no         *)
(* debounce timestamp, holding a callback handed to watch, while no older  *)
(* worker is alive; and the first event for the file that a FileWatcher    *)
(* worker takes invokes the callback, for a restarted worker as for the    *)
(* first.                                                                  *)
C36_Restart ==
    [][/\ Cardinality(LiveWorkers(workers')) <= 1
       /\ (StoppedOk /\ WatchStep)
            => wlast'.ret # WatcherError("Watcher is already running")
       /\ (WatchStep /\ wlast'.ret = OkUnit)
            => /\ \E cb \in Callbacks :
                     workers' = Append(workers,
                                       Worker(IF kind = "etcd" THEN "start" ELSE "check", cb))
               /\ workers'[Len(workers')].last_event_time = NoneVal
               /\ workers'[Len(workers')].event_rx = <<>>
               /\ LiveWorkers(workers) = {}
               /\ wlast'.thread = Len(workers')
       /\ \A t \in 1..Len(workers) :
             (/\ kind = "file"
              /\ Takes(t)
              /\ Names(Head(workers[t].event_rx), file_path)
              /\ CallsOf(calls, t) = <<>>)
                => calls' = Append(calls, Call(t, file_path, Head(workers[t].event_rx)))]_vars

\* a FileWatcher was stopped and started again with another callback, and
\* the second worker has reported its first event inside the window of the
\* last report of the first worker
C36_Witness ==
    /\ kind = "file"
    /\ Len(workers) = 2
    /\ ~Live(workers[1])
    /\ Live(workers[2])
    /\ workers[2].callback # workers[1].callback
    /\ Len(calls) = 2
    /\ calls[1].thread = 1
    /\ calls[2].thread = 2
    /\ calls[2].at - calls[1].at < DebounceDelay

----------------------------------------------------------------------------
\* the result is one of the errors of a FileWatcher that could not start
StartFailed(ret) == \E message \in StartFailures : ret = WatcherError(message)

(* C37: a FileWatcher.watch() that fails while it creates the notify       *)
(* watcher, looks for the parent directory or registers the path returns   *)
(* a WatcherError, spawns no worker, invokes no callback and leaves the     *)
(* watcher not watching, with every field as it was; the watch that         *)
(* follows is not rejected as already running.                              *)
C37_FailedStart ==
    [][/\ (kind = "file" /\ WatchStep /\ wlast'.ret.tag = "WatcherError"
              /\ wlast'.ret # WatcherError("Watcher is already running"))
            => /\ StartFailed(wlast'.ret)
               /\ ~watcher'
               /\ workers' = workers
               /\ calls' = calls
               /\ UNCHANGED <<watcher, stop_tx, watch_thread, caller>>
       /\ (caller.pc = "idle" /\ wlast.op = "watch" /\ StartFailed(wlast.ret) /\ WatchStep)
            => wlast'.ret # WatcherError("Watcher is already running")]_vars

\* a FileWatcher whose worker has reported an event was stopped, and the
\* watch that followed could not start: the watcher is not watching
C37_Witness ==
    /\ kind = "file"
    /\ Len(workers) = 1
    /\ wlast.op = "watch"
    /\ StartFailed(wlast.ret)
    /\ ~watcher
    /\ Len(calls) = 1

----------------------------------------------------------------------------
\* a FileWatcher after a stop whose join failed: the thread handle has been
\* taken, the notify watcher is still there
JoinFailed ==
    /\ kind = "file"
    /\ caller.pc = "idle"
    /\ watcher
    /\ watch_thread = 0

(* C38: when the worker of a FileWatcher has panicked, the stop() that     *)
(* joins it returns the WatcherError of the failed join and leaves the     *)
(* notify watcher in place; from then on watch() is rejected with "Watcher *)
(* is already running" and changes nothing, until stop() is called again:  *)
(* that stop returns Ok at once and leaves the watcher not watching.       *)
C38_PanickedWorker ==
    [][kind = "file" =>
         /\ (caller.pc = "joining" /\ caller'.pc = "idle"
                /\ workers[caller.handle].state = "panicked")
              => /\ wlast'.ret = WatcherError("Failed to join watcher thread")
                 /\ JoinFailed'
         /\ (JoinFailed /\ WatchStep)
              => /\ wlast'.ret = WatcherError("Watcher is already running")
                 /\ workers' = workers
                 /\ JoinFailed'
         /\ (JoinFailed /\ StopStep)
              => /\ wlast'.ret = OkUnit
                 /\ caller'.pc = "idle"
                 /\ ~watcher'
                 /\ stop_tx' = 0 /\ watch_thread' = 0
                 /\ workers' = workers]_vars

\* a watch has been rejected after the stop that could not join the
\* panicked worker
C38_Witness ==
    /\ JoinFailed
    /\ wlast.op = "watch"
    /\ wlast.ret = WatcherError("Watcher is already running")
    /\ \E t \in 1..Len(workers) : workers[t].state = "panicked"
    /\ Terminated(workers)

====
